---- MODULE Spec2Model ----
(***************************************************************************)
(* A model of tun-rs: the DeviceBuilder (src/builder.rs), the Windows      *)
(* Device with its session-backed (Tun) and raw-handle (Tap) drivers       *)
(* (src/platform/windows/device.rs), the netsh command runner              *)
(* (src/platform/windows/netsh.rs) and the tokio readiness adapter         *)
(* (src/async_device/unix/tokio.rs).                                       *)
(*                                                                         *)
(* Several state machines share the module, one specification each:        *)
(*   Spec          the builder: fluent calls in any order, then build_sync *)
(*   SpecTun       threads reading, writing and shutting down a Tun session*)
(*   SpecAsync     a task polling and awaiting recv/send on one AsyncFd    *)
(*   SpecCoercion  one call of an address / netmask coercion trait method  *)
(*   SpecPrefix    numeric prefix lengths through the traits and a builder *)
(*   SpecDevice    Device::new on Windows and calls on the Device it made  *)
(*   SpecGetters   a build on Windows, then the getters of its Device      *)
(*   SpecNetsh     netsh::output on the Output of a finished subprocess    *)
(* FairSpecTun, FairSpecAsync and FairSpecPoll add the scheduling that     *)
(* liveness needs.                                                         *)
(* Calls into collaborators whose code is not part of the repository's     *)
(* sources (the wintun session, the tap handle, the tokio reactor, the OS) *)
(* are nondeterministic choices over the results those calls can give.     *)
(***************************************************************************)
EXTENDS Integers, Sequences, FiniteSets, TLC

VARIABLES
    \* ---- builder (Spec) ----
    platform,   \* the target_os the crate is compiled for
    b,          \* the DeviceBuilder's fields (a DeviceConfig lives only inside
                \* build_sync's call of DeviceImpl::new, which consumes it)
    pc,         \* position of build_sync: "fluent", a step of config(), "returned"
    v6idx,      \* position of config()'s loop over the ipv6 list
    dev,        \* the native device build_sync created
    log,        \* the device operations config() invoked so far, in order
    result,     \* what build_sync returned
    supplied,   \* the arguments the ipv6 / ipv6_tuple calls were given, in call order
    mtuArg      \* for each address family, the argument of the last mtu / mtu_v4 /
                \* mtu_v6 call made for that family

bvars == <<platform, b, pc, v6idx, dev, log, result, supplied, mtuArg>>

VARIABLES
    \* ---- one Tun session and the threads using it (SpecTun) ----
    ring,       \* the session's receive ring: packets the driver delivered, oldest first
    shut,       \* the session's shutdown event is signalled
    txSent,     \* send-ring slots holding packets handed to send_packet, not yet transmitted
    txStuck,    \* send-ring slots allocated and dropped without send_packet
    thr         \* per thread: the call it is in, or the call it last made and its result

tvars == <<ring, shut, txSent, txStuck, thr>>

VARIABLES
    \* ---- one AsyncFd, the reactor behind it and the task using it (SpecAsync) ----
    ready,      \* the readiness the reactor holds for the descriptor
    down,       \* the runtime's I/O driver has shut down
    waker,      \* the directions in which the task's waker is registered
    rxq,        \* packets the kernel holds for the descriptor, as lengths, oldest first
    txFree,     \* packets the kernel can accept from the descriptor
    task        \* the call the task is in, or the call it last made and its result

avars == <<ready, down, waker, rxq, txFree, task>>

VARIABLES
    \* ---- one call of a coercion trait method (SpecCoercion) ----
    cin,        \* the value the method is called on
    cop,        \* the method that was called, "-" before the call
    cout        \* what the method returned

cvars == <<cin, cop, cout>>

VARIABLES
    \* ---- Device::new on Windows and the Device it returns (SpecDevice) ----
    dcfg,       \* the Configuration handed to Device::new
    ddev,       \* the Device that Device::new returned
    dnew,       \* what Device::new returned, the calls it made and those that failed
    dlast       \* the last call on the Device and what it returned

dvars == <<dcfg, ddev, dnew, dlast>>

VARIABLES
    \* ---- netsh::output on a finished subprocess (SpecNetsh) ----
    nsh         \* the command line, the subprocess's Output, and what output returned

nvars == <<nsh>>

\* what the actions of one state machine leave alone: the other machines
bframe == <<tvars, avars, cvars, dvars, nvars>>
tframe == <<bvars, avars, cvars, dvars, nvars>>
aframe == <<bvars, tvars, cvars, dvars, nvars>>
cframe == <<bvars, tvars, avars, dvars, nvars>>
dframe == <<bvars, tvars, avars, cvars, nvars>>
nframe == <<bvars, tvars, avars, cvars, dvars>>

(***************************************************************************)
(* Option and io::Result values.                                           *)
(***************************************************************************)
None == [some |-> FALSE]
Some(v) == [some |-> TRUE, v |-> v]
Ok(v) == [ok |-> TRUE, v |-> v]
Err(kind, msg) == [ok |-> FALSE, kind |-> kind, msg |-> msg]

\* Option<io::Result<T>>::transpose(): None -> Ok(None), Some(Ok(v)) -> Ok(Some(v)),
\* Some(Err(e)) -> Err(e).
Transpose(o) ==
    IF ~o.some THEN Ok(None)
    ELSE IF o.v.ok THEN Ok(Some(o.v.v))
    ELSE o.v

(***************************************************************************)
(* Bounds.                                                                 *)
(***************************************************************************)
\* the longest ipv6 list a builder accumulates
MaxV6 == 2

(***************************************************************************)
(* Address coercion (src/builder.rs 317-501).  An IPv4 address is its four *)
(* octets, an IPv6 address its sixteen octets, most significant first.     *)
(***************************************************************************)
RECURSIVE LeadingOnesBits(_, _)
\* leading one bits of the w-bit number o
LeadingOnesBits(o, w) ==
    IF w = 0 THEN 0
    ELSE IF o >= 2 ^ (w - 1) THEN 1 + LeadingOnesBits(o - 2 ^ (w - 1), w - 1)
    ELSE 0

RECURSIVE CountOnesBits(_)
CountOnesBits(o) == IF o = 0 THEN 0 ELSE (o % 2) + CountOnesBits(o \div 2)

RECURSIVE leading_ones(_)
\* uN::leading_ones of the number whose big-endian bytes are octs
leading_ones(octs) ==
    IF octs = <<>> THEN 0
    ELSE IF Head(octs) = 255 THEN 8 + leading_ones(Tail(octs))
    ELSE LeadingOnesBits(Head(octs), 8)

RECURSIVE count_ones(_)
\* uN::count_ones of the number whose big-endian bytes are octs
count_ones(octs) ==
    IF octs = <<>> THEN 0
    ELSE CountOnesBits(Head(octs)) + count_ones(Tail(octs))

\* The values a caller hands to the coercion traits.
TypedAddr(a) == [t |-> "Addr", a |-> a]                     \* Ipv4Addr / Ipv6Addr
GenericAddr(fam, a) == [t |-> "IpAddr", fam |-> fam, a |-> a] \* IpAddr::V4 / ::V6
Str(s) == [t |-> "str", s |-> s]                            \* &str / String
U8(n) == [t |-> "u8", n |-> n]

V4Host == <<10, 0, 0, 2>>
V4Peer == <<10, 0, 0, 1>>
V4Unspecified == <<0, 0, 0, 0>>
V4Mask24 == <<255, 255, 255, 0>>
V4MaskHoled == <<255, 0, 255, 0>>
V6HostA == <<253, 0, 0, 0, 0, 0, 0, 0, 0, 0, 0, 0, 0, 0, 0, 1>>
V6HostB == <<253, 0, 0, 0, 0, 0, 0, 0, 0, 0, 0, 0, 0, 0, 0, 2>>
V6Mask64 == <<255, 255, 255, 255, 255, 255, 255, 255, 0, 0, 0, 0, 0, 0, 0, 0>>

\* Ipv4Addr::from_str on the literals the model uses: a dotted quad parses, anything
\* else does not.
Ipv4FromStr(s) ==
    CASE s = "10.0.0.2" -> Ok(V4Host)
      [] s = "10.0.0.1" -> Ok(V4Peer)
      [] s = "255.255.255.0" -> Ok(V4Mask24)
      [] s = "255.0.255.0" -> Ok(V4MaskHoled)
      [] OTHER -> Err("AddrParseError", "invalid IPv4 address syntax")

\* Ipv6Addr::from_str on the literals the model uses.
Ipv6FromStr(s) ==
    CASE s = "fd00::1" -> Ok(V6HostA)
      [] s = "fd00::2" -> Ok(V6HostB)
      [] s = "ffff:ffff:ffff:ffff::" -> Ok(V6Mask64)
      [] OTHER -> Err("AddrParseError", "invalid IPv6 address syntax")

\* an ipv4() that turns an address of the other family into the unspecified address
ToIpv4Address_Defaulting(x) ==
    CASE x.t = "Addr" -> Ok(x.a)
      [] x.t = "IpAddr" -> IF x.fam = "V4" THEN Ok(x.a) ELSE Ok(V4Unspecified)
      [] x.t = "str" ->
            IF Ipv4FromStr(x.s).ok THEN Ok(Ipv4FromStr(x.s).v)
            ELSE Err("InvalidData", "invalid IPv4 str")

\* ToIpv4Address::ipv4 for Ipv4Addr, IpAddr, String and &str
ToIpv4Address(x) ==
    CASE x.t = "Addr" -> Ok(x.a)
      [] x.t = "IpAddr" ->
            IF x.fam = "V4" THEN Ok(x.a) ELSE Err("InvalidData", "invalid address")
      [] x.t = "str" ->
            IF Ipv4FromStr(x.s).ok THEN Ok(Ipv4FromStr(x.s).v)
            ELSE Err("InvalidData", "invalid IPv4 str")

\* ToIpv6Address::ipv6 for Ipv6Addr, IpAddr, String and &str
ToIpv6Address(x) ==
    CASE x.t = "Addr" -> Ok(x.a)
      [] x.t = "IpAddr" ->
            IF x.fam = "V6" THEN Ok(x.a) ELSE Err("InvalidData", "invalid address")
      [] x.t = "str" ->
            IF Ipv6FromStr(x.s).ok THEN Ok(Ipv6FromStr(x.s).v)
            ELSE Err("InvalidData", "invalid IPv6 str")

\* a prefix() that counts the leading ones whatever follows them
AddrPrefix_LeadingOnes(a) == Ok(leading_ones(a))

\* <Ipv4Addr as ToIpv4Netmask>::prefix and <Ipv6Addr as ToIpv6Netmask>::prefix
AddrPrefix(a) ==
    IF leading_ones(a) # count_ones(a) THEN Err("InvalidData", "invalid netmask")
    ELSE Ok(leading_ones(a))

\* ToIpv4Netmask::prefix for u8, Ipv4Addr, String and &str
ToIpv4Netmask_prefix(x) ==
    CASE x.t = "u8" ->
            IF x.n > 32 THEN Err("InvalidData", "invalid IP prefix length") ELSE Ok(x.n)
      [] x.t = "Addr" -> AddrPrefix(x.a)
      [] x.t = "str" ->
            IF Ipv4FromStr(x.s).ok THEN AddrPrefix(Ipv4FromStr(x.s).v)
            ELSE Err("InvalidData", "invalid netmask str")

\* a prefix() that hands back any u8 as it is
ToIpv6Netmask_prefix_AnyU8(x) ==
    CASE x.t = "u8" -> Ok(x.n)
      [] x.t = "Addr" -> AddrPrefix(x.a)
      [] x.t = "str" ->
            IF Ipv6FromStr(x.s).ok THEN AddrPrefix(Ipv6FromStr(x.s).v)
            ELSE Err("InvalidData", "invalid netmask str")

\* ToIpv6Netmask::prefix for u8, Ipv6Addr, String and &str
ToIpv6Netmask_prefix(x) ==
    CASE x.t = "u8" ->
            IF x.n > 128 THEN Err("InvalidData", "invalid IP prefix length") ELSE Ok(x.n)
      [] x.t = "Addr" -> AddrPrefix(x.a)
      [] x.t = "str" ->
            IF Ipv6FromStr(x.s).ok THEN AddrPrefix(Ipv6FromStr(x.s).v)
            ELSE Err("InvalidData", "invalid netmask str")

\* u32::MAX / u128::MAX as its w bits, most significant first
MAX(w) == [i \in 1..w |-> 1]

\* uN::wrapping_shl(rhs): the shift amount taken modulo the width
wrapping_shl(bits, rhs) ==
    Some([i \in 1..Len(bits) |->
            IF i + (rhs % Len(bits)) <= Len(bits) THEN bits[i + (rhs % Len(bits))] ELSE 0])

\* uN::checked_shl(rhs): None when rhs is not below the width (a difference that
\* wrapped below zero is such a value), else the bits shifted left by rhs
checked_shl(bits, rhs) ==
    IF rhs < 0 \/ rhs >= Len(bits) THEN None
    ELSE Some([i \in 1..Len(bits) |-> IF i + rhs <= Len(bits) THEN bits[i + rhs] ELSE 0])

unwrap_or(o, default) == IF o.some THEN o.v ELSE default

\* Ipv4Addr::from(u32) / Ipv6Addr::from(u128): the number's big-endian bytes
AddrFromBits(bits) ==
    [k \in 1..(Len(bits) \div 8) |->
        bits[8 * k - 7] * 128 + bits[8 * k - 6] * 64 + bits[8 * k - 5] * 32
        + bits[8 * k - 4] * 16 + bits[8 * k - 3] * 8 + bits[8 * k - 2] * 4
        + bits[8 * k - 1] * 2 + bits[8 * k]]

\* the provided method netmask() of both traits, after self.prefix()? gave p:
\* MAX.checked_shl(w - p).unwrap_or(0) as an address
NetmaskOf(p, w) ==
    AddrFromBits(unwrap_or(checked_shl(MAX(w), w - p), [i \in 1..w |-> 0]))

\* ToIpv4Netmask::netmask
ToIpv4Netmask_netmask(x) ==
    IF ToIpv4Netmask_prefix(x).ok
    THEN Ok(NetmaskOf(ToIpv4Netmask_prefix(x).v, 32))
    ELSE ToIpv4Netmask_prefix(x)

\* ToIpv6Netmask::netmask
ToIpv6Netmask_netmask(x) ==
    IF ToIpv6Netmask_prefix(x).ok
    THEN Ok(NetmaskOf(ToIpv6Netmask_prefix(x).v, 128))
    ELSE ToIpv6Netmask_prefix(x)

(***************************************************************************)
(* DeviceBuilder (src/builder.rs 55-315).                                  *)
(* The fields device_guid, wintun_file, ring_capacity, packet_information, *)
(* offload and multi_queue are only handed through to DeviceImpl::new and  *)
(* are left out.                                                           *)
(***************************************************************************)
Platforms == {"windows", "linux"}
\* #[cfg(any(target_os = "windows", target_os = "linux", target_os = "freebsd"))]
HasL2(p) == p \in {"windows", "linux", "freebsd"}

MtuValues == {1400, 1500}
Names == {"test0"}
MetricValues == {5}
TxQueueLens == {100}
MacValues == {<<2, 0, 0, 0, 0, 1>>}

\* the (address, mask, destination) triples the model's callers hand to ipv4()
Ipv4Calls ==
    { [address |-> TypedAddr(V4Host), mask |-> U8(24), destination |-> None],
      [address |-> Str("10.0.0.2"), mask |-> Str("255.255.255.0"),
       destination |-> Some(Str("10.0.0.1"))],
      [address |-> GenericAddr("V6", V6HostA), mask |-> U8(24), destination |-> None],
      [address |-> Str("10.0.0.x"), mask |-> U8(24), destination |-> None],
      [address |-> TypedAddr(V4Host), mask |-> U8(33), destination |-> None],
      [address |-> TypedAddr(V4Host), mask |-> TypedAddr(V4MaskHoled),
       destination |-> None],
      [address |-> GenericAddr("V4", V4Host), mask |-> TypedAddr(V4Mask24),
       destination |-> Some(GenericAddr("V6", V6HostA))] }

\* the (address, mask) pairs the model's callers hand to ipv6() and ipv6_tuple()
\* (one slice holds one address type and one mask type: IpAddr and u8 here)
Ipv6Calls ==
    { [address |-> GenericAddr("V6", V6HostA), mask |-> U8(64)],
      [address |-> GenericAddr("V6", V6HostB), mask |-> U8(128)],
      [address |-> GenericAddr("V4", V4Host), mask |-> U8(129)] }

\* DeviceBuilder::default()
NewBuilder ==
    [dev_name |-> None, enabled |-> None, mtu |-> None, mtu_v6 |-> None,
     ipv4 |-> None, ipv6 |-> None, layer |-> None, mac_addr |-> None,
     metric |-> None, tx_queue_len |-> None]

NoDevice == [driver |-> "none", session |-> "none", up |-> FALSE, open |-> FALSE]

\* one stored ipv6 entry: (address.ipv6(), mask.prefix())
V6Entry(c) == <<ToIpv6Address(c.address), ToIpv6Netmask_prefix(c.mask)>>

RECURSIVE V6Entries(_)
V6Entries(cs) == IF cs = <<>> THEN <<>> ELSE <<V6Entry(Head(cs))>> \o V6Entries(Tail(cs))

\* sequences over S of length at most n
SeqUpTo(S, n) == UNION { [1..k -> S] : k \in 0..n }

\* a fluent call that leaves the builder as nb, having been given the ipv6 entries cs
FluentV6(nb, cs) ==
    /\ pc = "fluent"
    /\ b' = nb
    /\ supplied' = supplied \o cs
    /\ UNCHANGED <<bframe, platform, pc, v6idx, dev, log, result, mtuArg>>

Fluent(nb) == FluentV6(nb, <<>>)

name == \E s \in Names : Fluent([b EXCEPT !.dev_name = Some(s)])

\* the address families an MTU setter is called for: mtu for both where the platform
\* keeps one MTU per family
Families(setter) ==
    CASE setter = "mtu" -> IF platform = "windows" THEN {"v4", "v6"} ELSE {"v4"}
      [] setter = "mtu_v4" -> {"v4"}
      [] setter = "mtu_v6" -> {"v6"}

\* the fluent call setter(m) that leaves the builder as nb
FluentMtu(setter, m, nb) ==
    /\ pc = "fluent"
    /\ b' = nb
    /\ mtuArg' = [fam \in DOMAIN mtuArg |->
                    IF fam \in Families(setter) THEN Some(m) ELSE mtuArg[fam]]
    /\ UNCHANGED <<bframe, platform, pc, v6idx, dev, log, result, supplied>>

\* an mtu that sets the IPv4 MTU alone on every platform
mtu_V4Only == \E m \in MtuValues : FluentMtu("mtu", m, [b EXCEPT !.mtu = Some(m)])

mtu ==
    \E m \in MtuValues :
        FluentMtu("mtu", m, IF platform = "windows"
                            THEN [b EXCEPT !.mtu = Some(m), !.mtu_v6 = Some(m)]
                            ELSE [b EXCEPT !.mtu = Some(m)])

mtu_v4 ==
    /\ platform = "windows"
    /\ \E m \in MtuValues : FluentMtu("mtu_v4", m, [b EXCEPT !.mtu = Some(m)])

mtu_v6 ==
    /\ platform = "windows"
    /\ \E m \in MtuValues : FluentMtu("mtu_v6", m, [b EXCEPT !.mtu_v6 = Some(m)])

mac_addr ==
    /\ HasL2(platform)
    /\ \E m \in MacValues : Fluent([b EXCEPT !.mac_addr = Some(m)])

ipv4 ==
    \E c \in Ipv4Calls :
        Fluent([b EXCEPT !.ipv4 =
            Some(<<ToIpv4Address(c.address),
                   ToIpv4Netmask_prefix(c.mask),
                   IF c.destination.some
                   THEN Some(ToIpv4Address(c.destination.v))
                   ELSE None>>)])

\* an ipv6 list that holds only the entries of the latest call
Ipv6Replaced(list, es) == Some(es)

\* the list after ipv6 / ipv6_tuple was given the entries es: pushed onto the stored
\* list, or a new list when none is stored
Ipv6Pushed(list, es) == IF list.some THEN Some(list.v \o es) ELSE Some(es)

ipv6 ==
    \E c \in Ipv6Calls :
        /\ (IF b.ipv6.some THEN Len(b.ipv6.v) ELSE 0) < MaxV6
        /\ FluentV6([b EXCEPT !.ipv6 = Ipv6Pushed(b.ipv6, <<V6Entry(c)>>)], <<c>>)

ipv6_tuple ==
    \E cs \in SeqUpTo(Ipv6Calls, MaxV6 - (IF b.ipv6.some THEN Len(b.ipv6.v) ELSE 0)) :
        FluentV6([b EXCEPT !.ipv6 = Ipv6Pushed(b.ipv6, V6Entries(cs))], cs)

layer ==
    \E l \in (IF HasL2(platform) THEN {"L2", "L3"} ELSE {"L3"}) :
        Fluent([b EXCEPT !.layer = Some(l)])

metric ==
    /\ platform = "windows"
    /\ \E m \in MetricValues : Fluent([b EXCEPT !.metric = Some(m)])

tx_queue_len ==
    /\ platform = "linux"
    /\ \E n \in TxQueueLens : Fluent([b EXCEPT !.tx_queue_len = Some(n)])

enable == \E v \in BOOLEAN : Fluent([b EXCEPT !.enabled = Some(v)])

\* build_config(): the snapshot, and the builder with the fields it took.  The
\* DeviceConfig of builder.rs holds no metric: the builder applies it in config().
build_config(bb) == [dev_name |-> bb.dev_name, layer |-> bb.layer, metric |-> None]
AfterBuildConfig(bb) == [bb EXCEPT !.dev_name = None, !.layer = None]

(***************************************************************************)
(* Device::new (src/platform/windows/device.rs 126-177).  f tells, for     *)
(* each call into a collaborator, whether that call succeeds; the result   *)
(* is the value returned, the device as it then is, and the calls made.    *)
(***************************************************************************)
NewCallsL3 == {"load_from_path", "Adapter::open", "Adapter::create", "start_session"}
NewCallsL2 == {"TapDevice::open", "TapDevice::create", "set_name"}
NewCallsTail == {"configure", "index", "set_interface_metric"}

NewOutcome(res, d, calls) == [res |-> res, dev |-> d, calls |-> calls]
NewFailed(calls) == NewOutcome(Err("Other", calls[Len(calls)]), NoDevice, calls)

\* a tail that runs the metric command before configure
NewTail_MetricFirst(cfg, f, d, calls) ==
    LET c1 == Append(calls, "index")
        c2 == Append(c1, "set_interface_metric")
        c3 == Append(IF cfg.metric.some THEN c2 ELSE calls, "configure")
    IN  IF cfg.metric.some /\ ~f["index"] THEN NewFailed(c1)
        ELSE IF cfg.metric.some /\ ~f["set_interface_metric"] THEN NewFailed(c2)
        ELSE IF ~f["configure"] THEN NewFailed(c3)
        ELSE NewOutcome(Ok("Device"), d, c3)

\* configure(&device, config)?, then the metric, then Ok(device)
NewTail(cfg, f, d, calls) ==
    LET c1 == Append(calls, "configure")
        c2 == Append(c1, "index")
        c3 == Append(c2, "set_interface_metric")
    IN  IF ~f["configure"] THEN NewFailed(c1)
        ELSE IF ~cfg.metric.some THEN NewOutcome(Ok("Device"), d, c1)
        ELSE IF ~f["index"] THEN NewFailed(c2)
        ELSE IF ~f["set_interface_metric"] THEN NewFailed(c3)
        ELSE NewOutcome(Ok("Device"), d, c3)

\* layer == Layer::L3: the wintun adapter and its session
NewL3(cfg, f) ==
    LET c1 == <<"load_from_path">>
        c2 == Append(c1, "Adapter::open")
        c3 == IF f["Adapter::open"] THEN c2 ELSE Append(c2, "Adapter::create")
        c4 == Append(c3, "start_session")
        tun == [driver |-> "Tun", session |-> "started", up |-> FALSE, open |-> TRUE]
    IN  IF ~f["load_from_path"] THEN NewFailed(c1)
        ELSE IF ~f["Adapter::open"] /\ ~f["Adapter::create"] THEN NewFailed(c3)
        ELSE IF ~f["start_session"] THEN NewFailed(c4)
        ELSE NewTail(cfg, f, tun, c4)

\* a Device::new that goes on after every failed rename
NewL2_RenameIgnored(cfg, f) ==
    LET c1 == <<"TapDevice::open">>
        c2 == Append(c1, "TapDevice::create")
        c3 == Append(c2, "set_name")
        tap == [driver |-> "Tap", session |-> "none", up |-> FALSE, open |-> TRUE]
    IN  IF f["TapDevice::open"] THEN NewTail(cfg, f, tap, c1)
        ELSE IF ~f["TapDevice::create"] THEN NewFailed(c2)
        ELSE NewTail(cfg, f, tap, c3)

\* layer == Layer::L2: the tap handle; a failed rename of a created device is an
\* error only when the caller gave a name
NewL2(cfg, f) ==
    LET c1 == <<"TapDevice::open">>
        c2 == Append(c1, "TapDevice::create")
        c3 == Append(c2, "set_name")
        tap == [driver |-> "Tap", session |-> "none", up |-> FALSE, open |-> TRUE]
    IN  IF f["TapDevice::open"] THEN NewTail(cfg, f, tap, c1)
        ELSE IF ~f["TapDevice::create"] THEN NewFailed(c2)
        ELSE IF ~f["set_name"] /\ cfg.dev_name.some THEN NewFailed(c3)
        ELSE NewTail(cfg, f, tap, c3)

\* the calls of the tail that cfg makes Device::new reach
TailCalls(cfg) == IF cfg.metric.some THEN NewCallsTail ELSE {"configure"}

\* a layer that is L2 unless one was given
LayerOf_L2Default(cfg) == IF cfg.layer.some THEN cfg.layer.v ELSE "L2"

\* config.layer.unwrap_or(Layer::L3)
LayerOf(cfg) == IF cfg.layer.some THEN cfg.layer.v ELSE "L3"

\* the ways the collaborators' calls on Device::new's path can turn out
NewOracles(cfg) ==
    IF LayerOf(cfg) = "L3"
    THEN [NewCallsL3 \cup TailCalls(cfg) -> BOOLEAN]
    ELSE [NewCallsL2 \cup TailCalls(cfg) -> BOOLEAN]

\* Device::new under the oracle f
NewWith(cfg, f) == IF LayerOf(cfg) = "L3" THEN NewL3(cfg, f) ELSE NewL2(cfg, f)

Device_new(cfg) == { NewWith(cfg, f) : f \in NewOracles(cfg) }

\* DeviceImpl::new on a platform whose device source is not in the repository's
\* sources: the native resource is created, not yet up, or creation fails
Unix_new(cfg) ==
    { NewOutcome(Ok("Device"),
                 [driver |-> IF cfg.layer.some /\ cfg.layer.v = "L2"
                             THEN "UnixTap" ELSE "UnixTun",
                  session |-> "none", up |-> FALSE, open |-> TRUE],
                 <<"open">>),
      NewFailed(<<"open">>) }

DeviceImpl_new(p, cfg) == IF p = "windows" THEN Device_new(cfg) ELSE Unix_new(cfg)

(***************************************************************************)
(* The device operations config() invokes: the results an operation can    *)
(* give on device d, each with the device as it then is.                   *)
(***************************************************************************)
OpResult(res, d) == [res |-> res, dev |-> d]
OkOrErr(op, d, dOk) == {OpResult(Ok("unit"), dOk), OpResult(Err("Other", op), d)}

\* Device::enabled (device.rs 233-250): a Tun's session is shut down by
\* enabled(false) and untouched by enabled(true); a Tap goes up or down
Device_enabled(d, value) ==
    CASE d.driver = "Tun" ->
            IF ~value THEN OkOrErr("enabled", d, [d EXCEPT !.session = "shutdown"])
            ELSE {OpResult(Ok("unit"), d)}
      [] OTHER -> OkOrErr("enabled", d, [d EXCEPT !.up = value])

\* what the tap handle's set_mac / get_mac can return
TapMacResults(op) ==
    IF op = "set_mac_address" THEN {Ok("unit"), Err("Other", op)}
    ELSE { Ok(m) : m \in MacValues } \cup {Err("Other", op)}

\* a set_mac_address / get_mac_address that asks the handle whatever the driver is
MacCall_Forwarding(d, h) == [res |-> h, native |-> TRUE]

\* the match of Device::set_mac_address and Device::get_mac_address (device.rs 358-380):
\* Unsupported on the Tun variant, else the handle's result h
MacCall(d, h) ==
    IF d.driver = "Tun"
    THEN [res |-> Err("Unsupported", "unsupported"), native |-> FALSE]
    ELSE [res |-> h, native |-> TRUE]

\* Device::set_mac_address (device.rs 358-368)
Device_set_mac_address(d, eth_addr) ==
    { OpResult(MacCall(d, h).res, d) : h \in TapMacResults("set_mac_address") }

\* Device::shutdown (device.rs 194-205): session.shutdown() on a Tun, tap.down() on a Tap
Device_shutdown(d) ==
    IF d.driver = "Tun" THEN OkOrErr("shutdown", d, [d EXCEPT !.session = "shutdown"])
    ELSE OkOrErr("shutdown", d, [d EXCEPT !.up = FALSE])

DeviceOp(d, op, arg) ==
    CASE op = "enabled" -> Device_enabled(d, arg)
      [] op = "set_mac_address" -> Device_set_mac_address(d, arg)
      [] OTHER -> OkOrErr(op, d, d)

\* the device is able to pass packets: its data session runs, or the interface is up
Live(d) == d.open /\ (d.session = "started" \/ d.up)

(***************************************************************************)
(* build_sync (builder.rs 301-305) and config (builder.rs 261-299).        *)
(***************************************************************************)
\* a config() that applies the metric before the MTU
StagesMetricFirst(p) ==
    IF p = "windows"
    THEN <<"metric", "mtu", "mtu_v6", "mac", "ipv4", "ipv6", "enabled">>
    ELSE <<"tx_queue_len", "mtu", "mac", "ipv4", "ipv6", "enabled">>

\* the steps of config() as compiled for platform p
Stages(p) ==
    IF p = "windows"
    THEN <<"mtu", "mtu_v6", "metric", "mac", "ipv4", "ipv6", "enabled">>
    ELSE <<"mtu", "tx_queue_len", "mac", "ipv4", "ipv6", "enabled">>

StageAfter(p, s) ==
    LET i == CHOOSE k \in DOMAIN Stages(p) : Stages(p)[k] = s
    IN  IF i = Len(Stages(p)) THEN "returned" ELSE Stages(p)[i + 1]

\* build_sync owns the device: returning an error drops it
Dropped(d) == [d EXCEPT !.open = FALSE]

\* the `?` of a failed step: config and build_sync return e
Fail(e) ==
    /\ pc' = "returned"
    /\ result' = e
    /\ dev' = Dropped(dev)

Skip(next) ==
    /\ pc' = next
    /\ UNCHANGED <<dev, log, result>>

\* device.op(arg) with its error ignored: config() goes on to the next step
CallIgnoringError(op, arg, next) ==
    \E r \in DeviceOp(dev, op, arg) :
        /\ log' = Append(log, [op |-> op, arg |-> arg, ok |-> r.res.ok])
        /\ pc' = next
        /\ dev' = r.dev
        /\ UNCHANGED result

\* device.op(arg)?
Call(op, arg, next) ==
    \E r \in DeviceOp(dev, op, arg) :
        /\ log' = Append(log, [op |-> op, arg |-> arg, ok |-> r.res.ok])
        /\ IF r.res.ok
           THEN /\ pc' = next
                /\ dev' = r.dev
                /\ UNCHANGED result
           ELSE Fail(r.res)

build_sync ==
    /\ pc = "fluent"
    /\ b' = AfterBuildConfig(b)
    /\ \E o \in DeviceImpl_new(platform, build_config(b)) :
          IF o.res.ok
          THEN /\ dev' = o.dev
               /\ pc' = Stages(platform)[1]
               /\ UNCHANGED result
          ELSE /\ dev' = o.dev
               /\ pc' = "returned"
               /\ result' = o.res
    /\ UNCHANGED <<bframe, platform, supplied, mtuArg, v6idx, log>>

config_mtu ==
    /\ pc = "mtu"
    /\ IF b.mtu.some
       THEN Call("set_mtu", b.mtu.v, StageAfter(platform, "mtu"))
       ELSE Skip(StageAfter(platform, "mtu"))
    /\ UNCHANGED <<bframe, platform, supplied, mtuArg, b, v6idx>>

config_mtu_v6 ==
    /\ pc = "mtu_v6"
    /\ IF b.mtu_v6.some
       THEN Call("set_mtu_v6", b.mtu_v6.v, StageAfter(platform, "mtu_v6"))
       ELSE Skip(StageAfter(platform, "mtu_v6"))
    /\ UNCHANGED <<bframe, platform, supplied, mtuArg, b, v6idx>>

config_metric ==
    /\ pc = "metric"
    /\ IF b.metric.some
       THEN Call("set_metric", b.metric.v, StageAfter(platform, "metric"))
       ELSE Skip(StageAfter(platform, "metric"))
    /\ UNCHANGED <<bframe, platform, supplied, mtuArg, b, v6idx>>

config_tx_queue_len ==
    /\ pc = "tx_queue_len"
    /\ IF b.tx_queue_len.some
       THEN Call("set_tx_queue_len", b.tx_queue_len.v,
                 StageAfter(platform, "tx_queue_len"))
       ELSE Skip(StageAfter(platform, "tx_queue_len"))
    /\ UNCHANGED <<bframe, platform, supplied, mtuArg, b, v6idx>>

\* self.layer is the builder's field, which build_config() has taken
config_mac ==
    /\ pc = "mac"
    /\ IF b.mac_addr.some /\ (IF b.layer.some THEN b.layer.v ELSE "L3") = "L2"
       THEN Call("set_mac_address", b.mac_addr.v, StageAfter(platform, "mac"))
       ELSE Skip(StageAfter(platform, "mac"))
    /\ UNCHANGED <<bframe, platform, supplied, mtuArg, b, v6idx>>

config_ipv4 ==
    /\ pc = "ipv4"
    /\ IF b.ipv4.some
       THEN LET prefix == b.ipv4.v[2]
                address == b.ipv4.v[1]
                destination == Transpose(b.ipv4.v[3])
            IN  IF ~prefix.ok THEN Fail(prefix) /\ UNCHANGED log
                ELSE IF ~address.ok THEN Fail(address) /\ UNCHANGED log
                ELSE IF ~destination.ok THEN Fail(destination) /\ UNCHANGED log
                ELSE Call("set_network_address",
                          <<address.v, prefix.v, destination.v>>,
                          StageAfter(platform, "ipv4"))
       ELSE Skip(StageAfter(platform, "ipv4"))
    /\ UNCHANGED <<bframe, platform, supplied, mtuArg, b, v6idx>>

\* one turn of the loop over the ipv6 list, or the loop's end
config_ipv6 ==
    /\ pc = "ipv6"
    /\ IF b.ipv6.some /\ v6idx <= Len(b.ipv6.v)
       THEN LET prefix == b.ipv6.v[v6idx][2]
                address == b.ipv6.v[v6idx][1]
            IN  /\ IF ~prefix.ok THEN Fail(prefix) /\ UNCHANGED log
                   ELSE IF ~address.ok THEN Fail(address) /\ UNCHANGED log
                   ELSE Call("add_address_v6", <<address.v, prefix.v>>, "ipv6")
                /\ v6idx' = v6idx + 1
       ELSE Skip(StageAfter(platform, "ipv6")) /\ UNCHANGED v6idx
    /\ UNCHANGED <<bframe, platform, supplied, mtuArg, b>>

config_enabled ==
    /\ pc = "enabled"
    /\ \E r \in DeviceOp(dev, "enabled", IF b.enabled.some THEN b.enabled.v ELSE TRUE) :
          /\ log' = Append(log, [op |-> "enabled",
                                 arg |-> IF b.enabled.some THEN b.enabled.v ELSE TRUE,
                                 ok |-> r.res.ok])
          /\ IF r.res.ok
             THEN /\ pc' = "returned"
                  /\ dev' = r.dev
                  /\ result' = Ok("SyncDevice")
             ELSE Fail(r.res)
    /\ UNCHANGED <<bframe, platform, supplied, mtuArg, b, v6idx>>

BuilderInit ==
    /\ platform \in Platforms
    /\ b = NewBuilder
    /\ pc = "fluent"
    /\ v6idx = 1
    /\ dev = NoDevice
    /\ log = <<>>
    /\ result = None
    /\ supplied = <<>>
    /\ mtuArg = [fam \in {"v4", "v6"} |-> None]

Next ==
    \/ name \/ mtu \/ mtu_v4 \/ mtu_v6 \/ mac_addr \/ ipv4 \/ ipv6 \/ ipv6_tuple
    \/ layer \/ metric \/ tx_queue_len \/ enable
    \/ build_sync
    \/ config_mtu \/ config_mtu_v6 \/ config_metric \/ config_tx_queue_len
    \/ config_mac \/ config_ipv4 \/ config_ipv6 \/ config_enabled

(***************************************************************************)
(* The session-backed driver (device.rs 387-451) and Device::shutdown      *)
(* (device.rs 194-205).  The wintun session is a collaborator: its calls   *)
(* return one of the results below.                                        *)
(***************************************************************************)
Threads == {"t1", "t2"}

\* capacity of the receive ring and of the send ring, in packets
MaxRing == 1
TxCap == 1

\* packets the driver delivers, as byte sequences, and the caller's read buffer sizes
Packets == {<<7>>, <<7, 8, 9>>}
BufCaps == {2}
\* lengths of the buffers handed to send / try_send
SendLens == {1, 65537}

ERROR_BUFFER_OVERFLOW == 111
ERROR_HANDLE_EOF == 38
WSAEWOULDBLOCK == 10035
U16Range == 65536

\* results of session.receive_blocking / try_receive / allocate_send_packet
Packet(bytes) == [t |-> "Packet", bytes |-> bytes, code |-> 0]
NoPacket == [t |-> "None", bytes |-> <<>>, code |-> 0]
ShuttingDown == [t |-> "ShuttingDown", bytes |-> <<>>, code |-> 0]
IoFailure(code) == [t |-> "Io", bytes |-> <<>>, code |-> code]
OtherFailure == [t |-> "Other", bytes |-> <<>>, code |-> 0]
Allocated(size) == [t |-> "Allocated", bytes |-> <<>>, code |-> size]
NotCalled == [t |-> "-", bytes |-> <<>>, code |-> 0]

\* the ErrorKind std gives an io::Error built from a raw OS code
decode_error_kind(code) ==
    IF code = WSAEWOULDBLOCK THEN "WouldBlock" ELSE "Uncategorized"

OsErrorMsg(code) ==
    CASE code = ERROR_BUFFER_OVERFLOW -> "os error 111"
      [] code = ERROR_HANDLE_EOF -> "os error 38"
      [] OTHER -> "os error"

\* buf.len() as u16
AsU16(n) == n % U16Range

\* a copy that stops without an error once the slice is full
io_copy_Truncating(n, room) == Ok(IF n <= room THEN n ELSE room)

\* io::copy of n source bytes into a slice of room bytes: all of them, or WriteZero
\* once the slice is full
io_copy(n, room) ==
    IF n <= room THEN Ok(n) ELSE Err("WriteZero", "failed to write whole buffer")

\* what a read or write call did: its result, the bytes left in the caller's buffer,
\* whether send_packet was called, whether an allocated packet was dropped unsent
Done(res, buf, sent, unsent) == [res |-> res, buf |-> buf, sent |-> sent, unsent |-> unsent]

\* a read_by_ref that reports a session error as ErrorKind::Other
Tun_read_by_ref_Other(o, cap) ==
    IF o.t = "Packet"
    THEN Done(io_copy(Len(o.bytes), cap),
              SubSeq(o.bytes, 1, IF Len(o.bytes) <= cap THEN Len(o.bytes) ELSE cap),
              FALSE, FALSE)
    ELSE Done(Err("Other", o.t), <<>>, FALSE, FALSE)

\* Tun::read_by_ref, given what receive_blocking returned
Tun_read_by_ref(o, cap) ==
    IF o.t = "Packet"
    THEN Done(io_copy(Len(o.bytes), cap),
              SubSeq(o.bytes, 1, IF Len(o.bytes) <= cap THEN Len(o.bytes) ELSE cap),
              FALSE, FALSE)
    ELSE Done(Err("ConnectionAborted", o.t), <<>>, FALSE, FALSE)

\* Tun::try_read_by_ref, given what try_receive returned
Tun_try_read_by_ref(o, cap) ==
    CASE o.t = "Packet" ->
            Done(io_copy(Len(o.bytes), cap),
                 SubSeq(o.bytes, 1, IF Len(o.bytes) <= cap THEN Len(o.bytes) ELSE cap),
                 FALSE, FALSE)
      [] o.t = "None" -> Done(Err("WouldBlock", ""), <<>>, FALSE, FALSE)
      [] OTHER -> Done(Err("ConnectionAborted", o.t), <<>>, FALSE, FALSE)

\* the Ok arm shared by write_by_ref and try_write_by_ref: copy, then send_packet
WriteAllocated(o, len) ==
    IF io_copy(len, o.code).ok
    THEN Done(Ok(len), <<>>, TRUE, FALSE)
    ELSE Done(io_copy(len, o.code), <<>>, FALSE, TRUE)

\* Tun::write_by_ref, given what allocate_send_packet(size as u16) returned
Tun_write_by_ref(o, len) ==
    CASE o.t = "Io" -> Done(Err(decode_error_kind(o.code), OsErrorMsg(o.code)), <<>>, FALSE, FALSE)
      [] o.t = "Allocated" -> WriteAllocated(o, len)
      [] OTHER -> Done(Err("Other", o.t), <<>>, FALSE, FALSE)

\* a try_write_by_ref that reports every Io allocation error as WouldBlock
Tun_try_write_by_ref_AnyIo(o, len) ==
    CASE o.t = "Io" -> Done(Err("WouldBlock", ""), <<>>, FALSE, FALSE)
      [] o.t = "Allocated" -> WriteAllocated(o, len)
      [] OTHER -> Done(Err("Other", o.t), <<>>, FALSE, FALSE)

\* Tun::try_write_by_ref, given what allocate_send_packet(size as u16) returned
Tun_try_write_by_ref(o, len) ==
    CASE o.t = "Io" ->
            IF o.code = ERROR_BUFFER_OVERFLOW
            THEN Done(Err("WouldBlock", ""), <<>>, FALSE, FALSE)
            ELSE Done(Err(decode_error_kind(o.code), OsErrorMsg(o.code)), <<>>, FALSE, FALSE)
      [] o.t = "Allocated" -> WriteAllocated(o, len)
      [] OTHER -> Done(Err("Other", o.t), <<>>, FALSE, FALSE)

\* session.allocate_send_packet(size): a slot of the send ring, ERROR_BUFFER_OVERFLOW
\* when the ring is full, or another failure
allocate_send_packet(size) ==
    (IF txSent + txStuck < TxCap THEN {Allocated(size)} ELSE {IoFailure(ERROR_BUFFER_OVERFLOW)})
        \cup {IoFailure(ERROR_HANDLE_EOF), OtherFailure}

\* session.try_receive(): the oldest packet of the ring, None when it is empty, or a failure
try_receive ==
    (IF ring # <<>> THEN {Packet(Head(ring))} ELSE {NoPacket}) \cup {IoFailure(ERROR_HANDLE_EOF)}

\* what wakes session.receive_blocking(): a packet in the ring, or the shutdown event
receive_blocking ==
    (IF ring # <<>> THEN {Packet(Head(ring))} ELSE {}) \cup (IF shut THEN {ShuttingDown} ELSE {})

Idle == [pc |-> "idle", op |-> "-", arg |-> 0, cause |-> NotCalled, pending |-> FALSE,
         out |-> Done(Ok(0), <<>>, FALSE, FALSE)]

Returns(t, op, arg, cause, out) ==
    thr' = [thr EXCEPT ![t] = [pc |-> "idle", op |-> op, arg |-> arg, cause |-> cause,
                               pending |-> thr[t].pending /\ op = "recv", out |-> out]]

\* Device::recv enters Tun::read_by_ref, which enters receive_blocking
recv_call(t) ==
    /\ thr[t].pc = "idle"
    /\ \E cap \in BufCaps :
          thr' = [thr EXCEPT ![t] = [Idle EXCEPT !.pc = "recv", !.op = "recv", !.arg = cap]]
    /\ UNCHANGED <<tframe, ring, shut, txSent, txStuck>>

\* receive_blocking wakes with a packet or with the shutdown event; read_by_ref returns
recv_return(t) ==
    /\ thr[t].pc = "recv"
    /\ \E o \in receive_blocking :
          /\ ring' = IF o.t = "Packet" THEN Tail(ring) ELSE ring
          /\ Returns(t, "recv", thr[t].arg, o, Tun_read_by_ref(o, thr[t].arg))
    /\ UNCHANGED <<tframe, shut, txSent, txStuck>>

\* receive_blocking fails for a cause other than shutdown; read_by_ref returns
recv_fail(t) ==
    /\ thr[t].pc = "recv"
    /\ Returns(t, "recv", thr[t].arg, IoFailure(ERROR_HANDLE_EOF),
               Tun_read_by_ref(IoFailure(ERROR_HANDLE_EOF), thr[t].arg))
    /\ UNCHANGED <<tframe, ring, shut, txSent, txStuck>>

\* Device::try_recv
try_recv(t) ==
    /\ thr[t].pc = "idle"
    /\ \E cap \in BufCaps, o \in try_receive :
          /\ ring' = IF o.t = "Packet" THEN Tail(ring) ELSE ring
          /\ Returns(t, "try_recv", cap, o, Tun_try_read_by_ref(o, cap))
    /\ UNCHANGED <<tframe, shut, txSent, txStuck>>

Written(out) ==
    /\ txSent' = IF out.sent THEN txSent + 1 ELSE txSent
    /\ txStuck' = IF out.unsent THEN txStuck + 1 ELSE txStuck

\* Device::send
send(t) ==
    /\ thr[t].pc = "idle"
    /\ \E len \in SendLens :
          \E o \in allocate_send_packet(AsU16(len)) :
              /\ Returns(t, "send", len, o, Tun_write_by_ref(o, len))
              /\ Written(Tun_write_by_ref(o, len))
    /\ UNCHANGED <<tframe, ring, shut>>

\* Device::try_send
try_send(t) ==
    /\ thr[t].pc = "idle"
    /\ \E len \in SendLens :
          \E o \in allocate_send_packet(AsU16(len)) :
              /\ Returns(t, "try_send", len, o, Tun_try_write_by_ref(o, len))
              /\ Written(Tun_try_write_by_ref(o, len))
    /\ UNCHANGED <<tframe, ring, shut>>

\* threads blocked in a read on an empty ring learn that shutdown was signalled
MarkPending(th) ==
    [u \in Threads |-> IF th[u].pc = "recv" /\ ring = <<>>
                       THEN [th[u] EXCEPT !.pending = TRUE] ELSE th[u]]

\* Device::shutdown on the Tun variant: session.shutdown(), its error mapped to Other
shutdown(t) ==
    /\ thr[t].pc = "idle"
    /\ \E signalled \in BOOLEAN :
          IF signalled
          THEN /\ shut' = TRUE
               /\ thr' = MarkPending([thr EXCEPT ![t] =
                            [Idle EXCEPT !.op = "shutdown"]])
          ELSE /\ shut' = shut
               /\ thr' = [thr EXCEPT ![t] =
                            [Idle EXCEPT !.op = "shutdown",
                                         !.cause = IoFailure(ERROR_HANDLE_EOF),
                                         !.out = Done(Err("Other", "Io"), <<>>, FALSE, FALSE)]]
    /\ UNCHANGED <<tframe, ring, txSent, txStuck>>

\* the driver delivers a packet into the receive ring
deliver ==
    /\ Len(ring) < MaxRing
    /\ \E p \in Packets : ring' = Append(ring, p)
    /\ UNCHANGED <<tframe, shut, txSent, txStuck, thr>>

\* the driver transmits a packet that was handed to send_packet
transmit ==
    /\ txSent > 0
    /\ txSent' = txSent - 1
    /\ UNCHANGED <<tframe, ring, shut, txStuck, thr>>

TunInit ==
    /\ ring = <<>>
    /\ shut = FALSE
    /\ txSent = 0
    /\ txStuck = 0
    /\ thr = [t \in Threads |-> Idle]

NextTun ==
    \/ \E t \in Threads :
          \/ recv_call(t) \/ recv_return(t) \/ recv_fail(t) \/ try_recv(t)
          \/ send(t) \/ try_send(t) \/ shutdown(t)
    \/ deliver
    \/ transmit

(***************************************************************************)
(* The tokio readiness adapter (tokio.rs 28-91).  tokio's AsyncFd and its  *)
(* reactor are collaborators: the reactor records readiness reports for    *)
(* the descriptor, poll_read_ready / poll_write_ready / readiness() read    *)
(* them, and a would-block result inside try_io / async_io clears the      *)
(* report the attempt was made under, unless a newer report has arrived.   *)
(***************************************************************************)
PollOps == {"poll_recv", "poll_send"}
AsyncOps == {"recv", "send", "recv_vectored", "send_vectored"}
TryOps == {"try_recv_io", "try_send_io"}
ReadyOps == {"poll_readable", "poll_writable"}
WaitOps == {"readable", "writable"}

\* packets the kernel can hold for the descriptor in each direction
MaxQ == 2
\* lengths of arriving packets and of the buffers handed to the send calls
PacketLens == {60, 1400}
BufLens == {60}

Direction(op) ==
    IF op \in {"poll_recv", "recv", "recv_vectored", "try_recv_io", "poll_readable", "readable"}
    THEN "read" ELSE "write"

\* a receive that registers interest in data-available only
Mask_ReadableOnly(op) ==
    IF Direction(op) = "read" THEN {"readable"} ELSE {"writable"}

\* the readiness a call looks at: the direction's mask for poll_read_ready and
\* poll_write_ready, the Interest it passes for async_io
Mask(op) ==
    CASE op \in {"poll_recv", "poll_readable", "readable"} -> {"readable"}
      [] op \in {"poll_send", "poll_writable", "writable"} -> {"writable"}
      [] op \in {"recv", "recv_vectored", "try_recv_io"} -> {"readable", "error"}
      [] op \in {"send", "send_vectored", "try_send_io"} -> {"writable"}

NoEvent == [flags |-> {}, current |-> FALSE]
NotReturned == [poll |-> "-", res |-> None]
TaskIdle == [pc |-> "idle", op |-> "-", len |-> 0, ev |-> NoEvent, saw |-> "-",
             native |-> None, retried |-> FALSE, fcalls |-> 0, ret |-> NotReturned]

\* the device's non-blocking recv / send (and their vectored forms): a packet's length,
\* would-block when nothing can move, or another OS error
Native(op, len) ==
    (IF Direction(op) = "read"
     THEN IF rxq # <<>> THEN {Ok(Head(rxq))} ELSE {Err("WouldBlock", "EAGAIN")}
     ELSE IF txFree > 0 THEN {Ok(len)} ELSE {Err("WouldBlock", "EAGAIN")})
        \cup {Err("Other", "EIO")}

\* the effect of a native attempt on the kernel's queues
Moved(op, r) ==
    /\ rxq' = IF r.ok /\ Direction(op) = "read" THEN Tail(rxq) ELSE rxq
    /\ txFree' = IF r.ok /\ Direction(op) = "write" THEN txFree - 1 ELSE txFree

\* a clear_ready that leaves the readiness as it is
Cleared_Kept(ev) == ready

\* clear_ready: drop the flags of the report the attempt was made under, unless the
\* reactor has recorded a report since
Cleared(ev) == IF ev.current THEN ready \ ev.flags ELSE ready

Return(poll, res) ==
    [task EXCEPT !.pc = "idle", !.ev = NoEvent, !.ret = [poll |-> poll, res |-> res]]

\* a poll_recv / poll_send call begins
poll_begin ==
    /\ task.pc = "idle"
    /\ \E op \in PollOps, len \in BufLens :
          task' = [TaskIdle EXCEPT !.pc = "check", !.op = op, !.len = len]
    /\ UNCHANGED <<aframe, ready, down, waker, rxq, txFree>>

\* self.0.poll_read_ready(cx) / poll_write_ready(cx), and the arms that return
poll_ready ==
    /\ task.pc = "check"
    /\ IF down
       THEN /\ task' = [Return("Ready", Err("Other", "runtime shut down")) EXCEPT !.saw = "error"]
            /\ UNCHANGED waker
       ELSE IF ready \cap Mask(task.op) # {}
       THEN /\ task' = [task EXCEPT !.pc = "attempt", !.saw = "ready",
                                    !.ev = [flags |-> ready \cap Mask(task.op), current |-> TRUE]]
            /\ UNCHANGED waker
       ELSE /\ task' = [Return("Pending", None) EXCEPT !.saw = "not-ready"]
            /\ waker' = waker \cup {Direction(task.op)}
    /\ UNCHANGED <<aframe, ready, down, rxq, txFree>>

\* a try_io whose would-block result is returned to the caller
try_io_Passing(r) ==
    /\ task' = [Return("Ready", r) EXCEPT !.native = r]
    /\ UNCHANGED ready

\* rs.try_io(|dev| dev.get_ref().recv(buf) / send(buf)): return the result, or on
\* would-block clear the readiness and continue the loop
try_io(r) ==
    IF ~r.ok /\ r.kind = "WouldBlock"
    THEN /\ task' = [task EXCEPT !.pc = "check", !.native = r, !.retried = TRUE, !.ev = NoEvent]
         /\ ready' = Cleared(task.ev)
    ELSE /\ task' = [Return("Ready", r) EXCEPT !.native = r]
         /\ UNCHANGED ready

poll_try_io ==
    /\ task.pc = "attempt"
    /\ task.op \in PollOps
    /\ \E r \in Native(task.op, task.len) :
          /\ try_io(r)
          /\ Moved(task.op, r)
    /\ UNCHANGED <<aframe, down, waker>>

\* recv / send / recv_vectored / send_vectored is called and awaited
async_begin ==
    /\ task.pc = "idle"
    /\ \E op \in AsyncOps, len \in BufLens :
          task' = [TaskIdle EXCEPT !.pc = "await", !.op = op, !.len = len]
    /\ UNCHANGED <<aframe, ready, down, waker, rxq, txFree>>

\* async_io's readiness(interest).await completes: with a report, or with the
\* runtime's error
async_readiness ==
    /\ task.pc = "await"
    /\ down \/ ready \cap Mask(task.op) # {}
    /\ IF down
       THEN task' = [Return("Return", Err("Other", "runtime shut down")) EXCEPT !.saw = "error"]
       ELSE task' = [task EXCEPT !.pc = "attempt", !.saw = "ready",
                                 !.ev = [flags |-> ready \cap Mask(task.op), current |-> TRUE]]
    /\ UNCHANGED <<aframe, ready, down, waker, rxq, txFree>>

\* an async_io that hands a would-block result to the awaiting caller
async_io_Passing(r) ==
    /\ task' = [Return("Return", r) EXCEPT !.native = r]
    /\ UNCHANGED ready

\* an async_io that suspends again after an attempt that moved a packet
async_io_Resuspending(r) ==
    IF ~r.ok /\ r.kind = "Other"
    THEN /\ task' = [Return("Return", r) EXCEPT !.native = r]
         /\ UNCHANGED ready
    ELSE /\ task' = [task EXCEPT !.pc = "await", !.native = r, !.retried = TRUE, !.ev = NoEvent]
         /\ ready' = Cleared(task.ev)

\* async_io's attempt: return the closure's result, or on would-block clear the
\* readiness and wait again
async_io(r) ==
    IF ~r.ok /\ r.kind = "WouldBlock"
    THEN /\ task' = [task EXCEPT !.pc = "await", !.native = r, !.retried = TRUE, !.ev = NoEvent]
         /\ ready' = Cleared(task.ev)
    ELSE /\ task' = [Return("Return", r) EXCEPT !.native = r]
         /\ UNCHANGED ready

async_attempt ==
    /\ task.pc = "attempt"
    /\ task.op \in AsyncOps
    /\ \E r \in Native(task.op, task.len) :
          /\ async_io(r)
          /\ Moved(task.op, r)
    /\ UNCHANGED <<aframe, down, waker>>

\* a try_io that runs the closure whatever readiness the reactor holds
Registration_try_io_Unchecked(op, r) ==
    /\ task' = [TaskIdle EXCEPT !.op = op, !.native = r, !.fcalls = 1,
                                !.saw = IF ready \cap Mask(op) = {} THEN "not-ready" ELSE "ready",
                                !.ret = [poll |-> "Return", res |-> r]]
    /\ UNCHANGED ready
    /\ Moved(op, r)

\* tokio's try_io(interest, f): would-block without running f when the reactor holds no
\* readiness of the interest; else f's result, a would-block result clearing the
\* readiness and coming back as a plain WouldBlock error
Registration_try_io(op, r) ==
    IF ready \cap Mask(op) = {}
    THEN /\ task' = [TaskIdle EXCEPT !.op = op, !.saw = "not-ready",
                                     !.ret = [poll |-> "Return", res |-> Err("WouldBlock", "")]]
         /\ UNCHANGED <<ready, rxq, txFree>>
    ELSE /\ task' = [TaskIdle EXCEPT !.op = op, !.saw = "ready", !.native = r, !.fcalls = 1,
                                     !.ret = [poll |-> "Return",
                                              res |-> IF ~r.ok /\ r.kind = "WouldBlock"
                                                      THEN Err("WouldBlock", "") ELSE r]]
         /\ ready' = IF ~r.ok /\ r.kind = "WouldBlock" THEN ready \ Mask(op) ELSE ready
         /\ Moved(op, r)

\* the recv / send / recv_vectored / send_vectored future is dropped where it is
\* suspended: in async_io's readiness(interest).await
async_cancel ==
    /\ task.pc = "await"
    /\ task.op \in AsyncOps
    /\ task' = [task EXCEPT !.pc = "idle", !.ret = [poll |-> "Dropped", res |-> None]]
    /\ UNCHANGED <<aframe, ready, down, waker, rxq, txFree>>

\* try_recv_io(f) / try_send_io(f), f being the device's recv / send
try_io_call ==
    /\ task.pc = "idle"
    /\ \E op \in TryOps, len \in BufLens :
          \E r \in Native(op, len) : Registration_try_io(op, r)
    /\ UNCHANGED <<aframe, down, waker>>

\* a poll_readable / poll_writable that makes the native attempt under readiness
poll_readable_writable_Attempting(op) ==
    IF down \/ ready \cap Mask(op) = {}
    THEN /\ task' = [TaskIdle EXCEPT !.op = op, !.saw = "not-ready",
                                     !.ret = [poll |-> "Pending", res |-> None]]
         /\ waker' = waker \cup {Direction(op)}
         /\ UNCHANGED <<rxq, txFree>>
    ELSE \E len \in BufLens : \E r \in Native(op, len) :
            /\ task' = [TaskIdle EXCEPT !.op = op, !.saw = "ready", !.native = r,
                                        !.ret = [poll |-> "Ready", res |-> Ok("unit")]]
            /\ Moved(op, r)
            /\ UNCHANGED waker

\* poll_readable(cx) / poll_writable(cx): poll_read_ready / poll_write_ready with the
\* guard dropped: the runtime's error, Ready(Ok(())) under reported readiness, else
\* Pending with the waker registered
poll_readable_writable(op) ==
    /\ IF down
       THEN /\ task' = [TaskIdle EXCEPT !.op = op, !.saw = "error",
                           !.ret = [poll |-> "Ready", res |-> Err("Other", "runtime shut down")]]
            /\ UNCHANGED waker
       ELSE IF ready \cap Mask(op) # {}
       THEN /\ task' = [TaskIdle EXCEPT !.op = op, !.saw = "ready",
                                        !.ret = [poll |-> "Ready", res |-> Ok("unit")]]
            /\ UNCHANGED waker
       ELSE /\ task' = [TaskIdle EXCEPT !.op = op, !.saw = "not-ready",
                                        !.ret = [poll |-> "Pending", res |-> None]]
            /\ waker' = waker \cup {Direction(op)}
    /\ UNCHANGED <<rxq, txFree>>

poll_readiness_call ==
    /\ task.pc = "idle"
    /\ \E op \in ReadyOps : poll_readable_writable(op)
    /\ UNCHANGED <<aframe, ready, down>>

\* readable() / writable() is called and awaited
wait_begin ==
    /\ task.pc = "idle"
    /\ \E op \in WaitOps : task' = [TaskIdle EXCEPT !.pc = "wait", !.op = op]
    /\ UNCHANGED <<aframe, ready, down, waker, rxq, txFree>>

\* self.0.readable().await? / writable().await? completes and the guard is dropped
wait_ready ==
    /\ task.pc = "wait"
    /\ down \/ ready \cap Mask(task.op) # {}
    /\ IF down
       THEN task' = [Return("Return", Err("Other", "runtime shut down")) EXCEPT !.saw = "error"]
       ELSE task' = [Return("Return", Ok("unit")) EXCEPT !.saw = "ready"]
    /\ UNCHANGED <<aframe, ready, down, waker, rxq, txFree>>

\* a packet arrives for the descriptor
arrive ==
    /\ Len(rxq) < MaxQ
    /\ \E n \in PacketLens : rxq' = Append(rxq, n)
    /\ UNCHANGED <<aframe, ready, down, waker, txFree, task>>

\* the kernel takes a sent packet off the descriptor's queue
drain ==
    /\ txFree < MaxQ
    /\ txFree' = txFree + 1
    /\ UNCHANGED <<aframe, ready, down, waker, rxq, task>>

\* what the OS can report for the descriptor now
Reportable ==
    (IF rxq # <<>> THEN {"readable"} ELSE {}) \cup (IF txFree > 0 THEN {"writable"} ELSE {})
        \cup {"error"}

\* the reactor records a readiness report and wakes the wakers it concerns
reactor_event ==
    /\ ~down
    /\ \E flags \in (SUBSET Reportable) \ {{}} :
          /\ flags \ ready # {} \/ task.ev.current
          /\ ready' = ready \cup flags
          /\ waker' = {d \in waker : /\ ~(d = "read" /\ "readable" \in flags)
                                     /\ ~(d = "write" /\ "writable" \in flags)}
          /\ task' = [task EXCEPT !.ev.current = FALSE]
    /\ UNCHANGED <<aframe, down, rxq, txFree>>

\* the runtime's I/O driver shuts down: every waiter is woken
runtime_shutdown ==
    /\ ~down
    /\ down' = TRUE
    /\ waker' = {}
    /\ UNCHANGED <<aframe, ready, rxq, txFree, task>>

AsyncInit ==
    /\ ready = {}
    /\ down = FALSE
    /\ waker = {}
    /\ rxq = <<>>
    /\ txFree = MaxQ
    /\ task = TaskIdle

NextAsync ==
    \/ poll_begin \/ poll_ready \/ poll_try_io
    \/ async_begin \/ async_readiness \/ async_attempt \/ async_cancel
    \/ try_io_call
    \/ poll_readiness_call \/ wait_begin \/ wait_ready
    \/ arrive \/ drain \/ reactor_event \/ runtime_shutdown

(***************************************************************************)
(* One call of a coercion trait method (builder.rs 317-501) on a value of  *)
(* one of the types the trait is implemented for.                          *)
(***************************************************************************)
\* the octets the model's netmask values are made of
MaskOctets == {0, 1, 128, 192, 254, 255}

\* Ipv4Addr values handed in as netmasks
V4Masks == { <<o1, o2, o3, o4>> : o1 \in MaskOctets, o2 \in MaskOctets,
                                  o3 \in MaskOctets, o4 \in MaskOctets }

\* Ipv6Addr values handed in as netmasks: k - 1 octets of 255, the octet o, zeros, and
\* the octet h at position j
V6Masks == { [i \in 1..16 |-> IF i < k THEN 255 ELSE IF i = k THEN o
                               ELSE IF i = j THEN h ELSE 0] :
                k \in 1..16, o \in MaskOctets, j \in 1..16, h \in {0, 128, 255} }

CoercionInputs ==
    { U8(n) : n \in 0..255 }
        \cup { TypedAddr(m) : m \in V4Masks \cup V6Masks }
        \cup { TypedAddr(a) : a \in {V4Host, V6HostA} }
        \cup { GenericAddr("V4", a) : a \in {V4Host, V4Peer, V4Unspecified} }
        \cup { GenericAddr("V6", a) : a \in {V6HostA, V6HostB} }
        \cup { Str(l) : l \in {"10.0.0.2", "255.255.255.0", "255.0.255.0", "10.0.0.x",
                                "fd00::1", "ffff:ffff:ffff:ffff::"} }

\* the types a trait of the address family with n-octet addresses is implemented for
Implements(x, n) == x.t \in {"u8", "IpAddr", "str"} \/ (x.t = "Addr" /\ Len(x.a) = n)

Called(op, out) ==
    /\ cop = "-"
    /\ cop' = op
    /\ cout' = out
    /\ UNCHANGED <<cframe, cin>>

\* mask.prefix() through ToIpv4Netmask / ToIpv6Netmask
prefix_v4 == cin.t # "IpAddr" /\ Implements(cin, 4) /\ Called("prefix_v4", ToIpv4Netmask_prefix(cin))
prefix_v6 == cin.t # "IpAddr" /\ Implements(cin, 16) /\ Called("prefix_v6", ToIpv6Netmask_prefix(cin))

\* mask.netmask() through ToIpv4Netmask / ToIpv6Netmask
netmask_v4 == cin.t # "IpAddr" /\ Implements(cin, 4) /\ Called("netmask_v4", ToIpv4Netmask_netmask(cin))
netmask_v6 == cin.t # "IpAddr" /\ Implements(cin, 16) /\ Called("netmask_v6", ToIpv6Netmask_netmask(cin))

\* mask.netmask()?.prefix(): the prefix of the address netmask() returned
netmask_prefix ==
    /\ cop \in {"netmask_v4", "netmask_v6"}
    /\ cout.ok
    /\ cop' = IF cop = "netmask_v4" THEN "netmask_v4.prefix" ELSE "netmask_v6.prefix"
    /\ cout' = IF cop = "netmask_v4" THEN ToIpv4Netmask_prefix(TypedAddr(cout.v))
               ELSE ToIpv6Netmask_prefix(TypedAddr(cout.v))
    /\ UNCHANGED <<cframe, cin>>

\* address.ipv4() / address.ipv6() through ToIpv4Address / ToIpv6Address
address_v4 == cin.t # "u8" /\ Implements(cin, 4) /\ Called("ipv4", ToIpv4Address(cin))
address_v6 == cin.t # "u8" /\ Implements(cin, 16) /\ Called("ipv6", ToIpv6Address(cin))

\* no trait call is under way
CoercionIdle == cin = [t |-> "-"] /\ cop = "-" /\ cout = None

CoercionInit == cin \in CoercionInputs /\ cop = "-" /\ cout = None

NextCoercion ==
    \/ prefix_v4 \/ prefix_v6 \/ netmask_v4 \/ netmask_v6 \/ netmask_prefix
    \/ address_v4 \/ address_v6

(***************************************************************************)
(* Device::new on Windows (device.rs 126-177) called directly, and calls   *)
(* on the Device it returned.                                              *)
(***************************************************************************)
Layers == {"L2", "L3"}

\* the Configurations handed to Device::new
DeviceConfigs ==
    { [dev_name |-> n, layer |-> l, metric |-> m] :
        n \in {None} \cup { Some(x) : x \in Names },
        l \in {None} \cup { Some(x) : x \in Layers },
        m \in {None} \cup { Some(x) : x \in MetricValues } }

NotBuilt == [res |-> None, calls |-> <<>>, failed |-> {}]
NoCall == [op |-> "-", res |-> None, native |-> FALSE, handle |-> None]

\* Device::new(&config)
call_new ==
    /\ dnew = NotBuilt
    /\ \E f \in NewOracles(dcfg) :
          /\ ddev' = NewWith(dcfg, f).dev
          /\ dnew' = [res |-> NewWith(dcfg, f).res,
                      calls |-> NewWith(dcfg, f).calls,
                      failed |-> { c \in DOMAIN f :
                                    /\ ~f[c]
                                    /\ \E i \in DOMAIN NewWith(dcfg, f).calls :
                                          NewWith(dcfg, f).calls[i] = c }]
    /\ UNCHANGED <<dframe, dcfg, dlast>>

\* Device::new returned Ok(device)
Built == dnew.res # None /\ dnew.res.ok

\* device.set_mac_address(eth_addr) and device.get_mac_address()
call_mac ==
    /\ Built
    /\ \E op \in {"set_mac_address", "get_mac_address"} :
          \E h \in TapMacResults(op) :
              dlast' = [op |-> op, res |-> MacCall(ddev, h).res,
                        native |-> MacCall(ddev, h).native,
                        handle |-> IF MacCall(ddev, h).native THEN Some(h) ELSE None]
    /\ UNCHANGED <<dframe, dcfg, ddev, dnew>>

\* the call returned r without asking the tap handle for a link-layer address
Did(op, r) ==
    /\ ddev' = r.dev
    /\ dlast' = [NoCall EXCEPT !.op = op, !.res = r.res]

\* device.enabled(value)
call_enabled ==
    /\ Built
    /\ \E value \in BOOLEAN : \E r \in Device_enabled(ddev, value) : Did("enabled", r)
    /\ UNCHANGED <<dframe, dcfg, dnew>>

\* device.shutdown()
call_shutdown ==
    /\ Built
    /\ \E r \in Device_shutdown(ddev) : Did("shutdown", r)
    /\ UNCHANGED <<dframe, dcfg, dnew>>

\* device.recv / try_recv / send / try_send: the driver's read or write
call_io ==
    /\ Built
    /\ \E op \in {"recv", "try_recv", "send", "try_send"} :
          \E r \in OkOrErr(op, ddev, ddev) : Did(op, r)
    /\ UNCHANGED <<dframe, dcfg, dnew>>

\* the other setters of the device
call_setter ==
    /\ Built
    /\ \E op \in {"set_name", "set_mtu", "set_network_address", "set_metric"} :
          \E r \in DeviceOp(ddev, op, 0) : Did(op, r)
    /\ UNCHANGED <<dframe, dcfg, dnew>>

\* no Device::new call is under way
DeviceUnused ==
    /\ dcfg = [dev_name |-> None, layer |-> None, metric |-> None]
    /\ ddev = NoDevice /\ dnew = NotBuilt /\ dlast = NoCall

DeviceInit ==
    /\ dcfg \in DeviceConfigs
    /\ ddev = NoDevice /\ dnew = NotBuilt /\ dlast = NoCall

NextDevice ==
    \/ call_new \/ call_mac \/ call_enabled \/ call_shutdown \/ call_io \/ call_setter

(***************************************************************************)
(* The getters of the Windows Device (device.rs 252-342), called on the    *)
(* device build_sync returned.  The interface's addresses, masks and MTU   *)
(* live in the OS: they are what the operations of the log that succeeded  *)
(* have set, and the adapter's and the handle's getters read them.         *)
(***************************************************************************)
Getters == {"address", "netmask", "mtu"}

\* the entries of the log for op that succeeded
AppliedOps(op) == SelectSeq(log, LAMBDA e : e.op = op /\ e.ok)

\* the mask handed to netsh for an address set with the prefix length p
MaskOfPrefix(a, p) == NetmaskOf(p, 8 * Len(a))

\* the (address, mask) pairs the OS holds for the interface: the IPv4 address last
\* set, and every IPv6 address added
OsAddresses ==
    { <<e.arg[1], MaskOfPrefix(e.arg[1], e.arg[2])>> :
        e \in { AppliedOps("set_network_address")[i] :
                    i \in {Len(AppliedOps("set_network_address"))} \ {0} } }
        \cup { <<AppliedOps("add_address_v6")[i].arg[1],
                 MaskOfPrefix(AppliedOps("add_address_v6")[i].arg[1],
                              AppliedOps("add_address_v6")[i].arg[2])>> :
                  i \in DOMAIN AppliedOps("add_address_v6") }

\* adapter.get_addresses(): the interface's addresses, in an order of the OS's choosing
get_addresses ==
    LET A == { p[1] : p \in OsAddresses }
    IN  { q \in [1..Cardinality(A) -> A] : \A a \in A : \E i \in DOMAIN q : q[i] = a }

\* adapter.get_netmask_of_address(a)
get_netmask_of_address(a) ==
    { Ok(p[2]) : p \in { q \in OsAddresses : q[1] = a } } \cup {Err("Other", "netmask")}

\* adapter.get_mtu(): the interface's IPv4 MTU, the driver's maximum until one is set
get_mtu ==
    IF AppliedOps("set_mtu") = <<>> THEN U16Range - 1
    ELSE AppliedOps("set_mtu")[Len(AppliedOps("set_mtu"))].arg

\* an address() that takes the first address of the list whatever its family
First(addresses) ==
    IF addresses = <<>> THEN Err("InvalidConfig", "")
    ELSE Ok(addresses[1])

\* addresses.iter().find_map(the first IpAddr::V4).ok_or(Error::InvalidConfig)
FirstV4(addresses) ==
    IF \E i \in DOMAIN addresses : Len(addresses[i]) = 4
    THEN Ok(addresses[CHOOSE i \in DOMAIN addresses :
                        /\ Len(addresses[i]) = 4
                        /\ \A j \in 1..(i - 1) : Len(addresses[j]) # 4])
    ELSE Err("InvalidConfig", "")

\* Device::address (device.rs 252-269): the adapter's first IPv4 address on a Tun, the
\* handle's address on a Tap
Device_address(d) ==
    { FirstV4(addresses) : addresses \in get_addresses } \cup {Err("Other", "address")}

\* Device::netmask (device.rs 292-307): self.address()?, then the mask the adapter or
\* the handle holds for it
Device_netmask(d) ==
    UNION { IF r.ok THEN get_netmask_of_address(r.v) ELSE {r} : r \in Device_address(d) }

\* Device::mtu (device.rs 328-342): get_mtu()? as u16
Device_mtu(d) == {Ok(AsU16(get_mtu)), Err("Other", "mtu")}

Device_get(d, getter) ==
    CASE getter = "address" -> Device_address(d)
      [] getter = "netmask" -> Device_netmask(d)
      [] getter = "mtu" -> Device_mtu(d)

\* a getter is called on the device a successful build_sync returned
call_getter ==
    /\ platform = "windows" /\ pc = "returned" /\ result.ok
    /\ \E getter \in Getters :
          \E r \in Device_get(dev, getter) :
              dlast' = [NoCall EXCEPT !.op = getter, !.res = r]
    /\ UNCHANGED <<dframe, dcfg, ddev, dnew>>

(***************************************************************************)
(* netsh::output (netsh.rs 31-56) on the Output of a finished subprocess.  *)
(* Byte strings are sequences of bytes, Strings sequences of code points.  *)
(***************************************************************************)
\* a continuation byte of UTF-8
IsCont(x) == x \in 128..191

\* the number of bytes of the UTF-8 sequence that begins bytes, 0 when none does
\* (core::str::from_utf8's validation: no overlong form, no surrogate, at most U+10FFFF)
Utf8Width(bytes) ==
    LET n == Len(bytes)
        x == bytes[1]
    IN  CASE x < 128 -> 1
          [] x \in 194..223 /\ n >= 2 /\ IsCont(bytes[2]) -> 2
          [] /\ x \in 224..239 /\ n >= 3 /\ IsCont(bytes[2]) /\ IsCont(bytes[3])
             /\ (x = 224 => bytes[2] >= 160) /\ (x = 237 => bytes[2] <= 159) -> 3
          [] /\ x \in 240..244 /\ n >= 4
             /\ IsCont(bytes[2]) /\ IsCont(bytes[3]) /\ IsCont(bytes[4])
             /\ (x = 240 => bytes[2] >= 144) /\ (x = 244 => bytes[2] <= 143) -> 4
          [] OTHER -> 0

\* the code point of a valid UTF-8 sequence of w bytes
Utf8Scalar(bytes, w) ==
    CASE w = 1 -> bytes[1]
      [] w = 2 -> (bytes[1] - 192) * 64 + (bytes[2] - 128)
      [] w = 3 -> (bytes[1] - 224) * 4096 + (bytes[2] - 128) * 64 + (bytes[3] - 128)
      [] w = 4 -> (bytes[1] - 240) * 262144 + (bytes[2] - 128) * 4096
                      + (bytes[3] - 128) * 64 + (bytes[4] - 128)

RECURSIVE from_utf8(_)
\* String::from_utf8(bytes): the text, or an error when bytes are not UTF-8
from_utf8(bytes) ==
    IF bytes = <<>> THEN Ok(<<>>)
    ELSE LET w == Utf8Width(bytes)
         IN  IF w = 0 THEN Err("Utf8Error", "")
             ELSE LET rest == from_utf8(SubSeq(bytes, w + 1, Len(bytes)))
                  IN  IF rest.ok THEN Ok(<<Utf8Scalar(bytes, w)>> \o rest.v) ELSE rest

\* the two-byte codes of the GBK index that the command outputs use
GBKIndex == (<<214, 208>> :> 20013) @@ (<<195, 169>> :> 33541)

RECURSIVE gbk_to_utf8(_)
\* gbk_to_utf8 (netsh.rs 31-34): GBK.decode(bytes) never fails, a malformed sequence
\* becomes U+FFFD
gbk_to_utf8(bytes) ==
    IF bytes = <<>> THEN <<>>
    ELSE IF bytes[1] < 128 THEN <<bytes[1]>> \o gbk_to_utf8(Tail(bytes))
    ELSE IF Len(bytes) >= 2 /\ SubSeq(bytes, 1, 2) \in DOMAIN GBKIndex
         THEN <<GBKIndex[SubSeq(bytes, 1, 2)]>> \o gbk_to_utf8(SubSeq(bytes, 3, Len(bytes)))
    ELSE <<65533>> \o gbk_to_utf8(Tail(bytes))

\* String::from_utf8(bytes), and on its error gbk_to_utf8 (netsh.rs 38-41, 45-48)
Decode(bytes) == IF from_utf8(bytes).ok THEN from_utf8(bytes).v ELSE gbk_to_utf8(bytes)

RECURSIVE escape_debug(_)
\* the body of a string under {:?}: the quote and the backslash get a backslash
escape_debug(str) ==
    IF str = <<>> THEN <<>>
    ELSE (IF str[1] \in {34, 92} THEN <<92, str[1]>> ELSE <<str[1]>>)
            \o escape_debug(Tail(str))

\* {:?} of a string
Debug(str) == <<34>> \o escape_debug(str) \o <<34>>

\* format!("cmd={:?},out={:?}", cmd, msg)
CmdMessage(cmd, msg) ==
    <<99, 109, 100, 61>> \o Debug(cmd) \o <<44, 111, 117, 116, 61>> \o Debug(msg)

\* an output that reads stdout before stderr
output_StdoutFirst(cmd, out) ==
    IF out.status # 0
    THEN Err("Other", CmdMessage(cmd,
                IF out.stdout # <<>> THEN Decode(out.stdout)
                ELSE IF out.stderr # <<>> THEN Decode(out.stderr)
                ELSE <<>>))
    ELSE Ok(<<>>)

\* netsh::output (netsh.rs 35-56)
output(cmd, out) ==
    IF out.status # 0
    THEN Err("Other", CmdMessage(cmd,
                IF out.stderr # <<>> THEN Decode(out.stderr)
                ELSE IF out.stdout # <<>> THEN Decode(out.stdout)
                ELSE <<>>))
    ELSE Ok(<<>>)

\* what a subprocess wrote: nothing, ASCII, a quote, UTF-8 of U+00E9, GBK of U+4E2D,
\* a byte that is neither
OutputBytes == {<<>>, <<97>>, <<34>>, <<195, 169>>, <<214, 208>>, <<255>>, <<97, 255>>}

\* the command lines: "n" and "n\"m"
CommandLines == {<<110>>, <<110, 34, 109>>}

NetshIdle == nsh = [cmd |-> <<>>, out |-> None, res |-> None]

NetshInit ==
    nsh \in [cmd : CommandLines,
             out : [status : {0, 1}, stdout : OutputBytes, stderr : OutputBytes],
             res : {None}]

\* exe_cmd hands the finished subprocess's Output to output (netsh.rs 23-30)
exe_cmd ==
    /\ nsh.out # None /\ nsh.res = None
    /\ nsh' = [nsh EXCEPT !.res = output(nsh.cmd, nsh.out)]
    /\ UNCHANGED nframe

(***************************************************************************)
(* The specifications.                                                     *)
(***************************************************************************)
vars == <<bvars, tvars, avars, cvars, dvars, nvars>>

\* the builder, on either platform; the session and the adapter unused
Init == BuilderInit /\ TunInit /\ AsyncInit /\ CoercionIdle /\ DeviceUnused /\ NetshIdle

\* a caller of Device::new on Windows
InitDevice ==
    /\ BuilderInit /\ platform = "windows" /\ TunInit /\ AsyncInit /\ CoercionIdle
    /\ NetshIdle
    /\ DeviceInit

SpecDevice == InitDevice /\ [][NextDevice]_vars

\* a caller of the coercion traits
InitCoercion ==
    BuilderInit /\ platform = "linux" /\ TunInit /\ AsyncInit /\ CoercionInit /\ DeviceUnused /\ NetshIdle

SpecCoercion == InitCoercion /\ [][NextCoercion]_vars

Spec == Init /\ [][Next]_vars

\* a Tun device built on Windows and shared by the threads
InitTun ==
    BuilderInit /\ platform = "windows" /\ TunInit /\ AsyncInit /\ CoercionIdle /\ DeviceUnused /\ NetshIdle

SpecTun == InitTun /\ [][NextTun]_vars

\* a caller that hands numeric prefix lengths to the netmask traits directly and
\* addresses with numeric prefix lengths to a builder it then builds
PrefixLengths == {0, 32, 33, 128, 129, 255}

InitPrefix ==
    /\ BuilderInit /\ TunInit /\ AsyncInit /\ DeviceUnused /\ NetshIdle
    /\ cin \in { U8(n) : n \in PrefixLengths } /\ cop = "-" /\ cout = None

NextPrefix ==
    \/ prefix_v4 \/ prefix_v6 \/ netmask_v4 \/ netmask_v6
    \/ ipv4 \/ ipv6 \/ build_sync
    \/ config_mtu \/ config_mtu_v6 \/ config_metric \/ config_tx_queue_len
    \/ config_mac \/ config_ipv4 \/ config_ipv6 \/ config_enabled

SpecPrefix == InitPrefix /\ [][NextPrefix]_vars

\* netsh::output on every Output of a finished subprocess
InitNetsh ==
    /\ BuilderInit /\ platform = "windows" /\ TunInit /\ AsyncInit /\ CoercionIdle
    /\ DeviceUnused /\ NetshInit

NextNetsh == exe_cmd

SpecNetsh == InitNetsh /\ [][NextNetsh]_vars

\* a caller on Windows that builds a device and reads its getters
InitGetters ==
    /\ BuilderInit /\ platform = "windows" /\ TunInit /\ AsyncInit /\ CoercionIdle
    /\ DeviceUnused /\ NetshIdle

NextGetters ==
    \/ mtu \/ ipv4 \/ ipv6 \/ layer \/ enable \/ build_sync
    \/ config_mtu \/ config_mtu_v6 \/ config_metric \/ config_mac
    \/ config_ipv4 \/ config_ipv6 \/ config_enabled
    \/ call_getter

SpecGetters == InitGetters /\ [][NextGetters]_vars

\* a thread blocked in receive_blocking runs again once it can wake
FairSpecTun == SpecTun /\ \A t \in Threads : WF_vars(recv_return(t))

\* a device wrapped in an AsyncFd on a Unix platform
InitAsync ==
    BuilderInit /\ platform = "linux" /\ TunInit /\ AsyncInit /\ CoercionIdle /\ DeviceUnused /\ NetshIdle

SpecAsync == InitAsync /\ [][NextAsync]_vars

\* the executor runs a task whose readiness wait can complete, and a task that is
\* running makes its attempt
FairSpecAsync == SpecAsync /\ WF_vars(async_readiness) /\ WF_vars(async_attempt)

\* a poll_recv / poll_send call runs on its caller's thread until it returns
FairSpecPoll == SpecAsync /\ WF_vars(poll_ready) /\ WF_vars(poll_try_io)

(***************************************************************************)
(* Properties of the builder, checked under Spec.                          *)
(***************************************************************************)
\* the device operations of config(), in the order the specification gives them
ConfigOps ==
    <<"set_mtu", "set_mtu_v6", "set_metric", "set_tx_queue_len", "set_mac_address",
      "set_network_address", "add_address_v6", "enabled">>

Rank(op) == CHOOSE k \in DOMAIN ConfigOps : ConfigOps[k] = op
Count(op) == Cardinality({i \in DOMAIN log : log[i].op = op})
Returned == pc = "returned"
ReturnedOk == pc = "returned" /\ result.ok
ReturnedErr == pc = "returned" /\ ~result.ok
\* the layer the device was created for is L2
CreatedL2 == dev.driver \in {"Tap", "UnixTap"}
EnableArg == IF b.enabled.some THEN b.enabled.v ELSE TRUE
V6List == IF b.ipv6.some THEN b.ipv6.v ELSE <<>>

\* the builder asked for the operation (the link-layer address is C3's subject)
Requested(op) ==
    CASE op = "set_mtu" -> b.mtu.some
      [] op = "set_mtu_v6" -> b.mtu_v6.some
      [] op = "set_metric" -> b.metric.some
      [] op = "set_tx_queue_len" -> b.tx_queue_len.some
      [] op = "set_mac_address" -> FALSE
      [] op = "set_network_address" -> b.ipv4.some
      [] op = "add_address_v6" -> V6List # <<>>
      [] op = "enabled" -> TRUE

\* the i-th logged operation carries the builder's value for it
CarriesBuilderValue(i) ==
    LET e == log[i]
        k == Cardinality({j \in 1..i : log[j].op = "add_address_v6"})
    IN  CASE e.op = "set_mtu" -> b.mtu.some /\ e.arg = b.mtu.v
          [] e.op = "set_mtu_v6" -> b.mtu_v6.some /\ e.arg = b.mtu_v6.v
          [] e.op = "set_metric" -> b.metric.some /\ e.arg = b.metric.v
          [] e.op = "set_tx_queue_len" ->
                b.tx_queue_len.some /\ e.arg = b.tx_queue_len.v
          [] e.op = "set_mac_address" ->
                b.mac_addr.some /\ e.arg = b.mac_addr.v /\ CreatedL2
          [] e.op = "set_network_address" ->
                /\ b.ipv4.some
                /\ b.ipv4.v[1].ok /\ b.ipv4.v[2].ok /\ Transpose(b.ipv4.v[3]).ok
                /\ e.arg = <<b.ipv4.v[1].v, b.ipv4.v[2].v, Transpose(b.ipv4.v[3]).v>>
          [] e.op = "add_address_v6" ->
                /\ k <= Len(V6List)
                /\ V6List[k][1].ok /\ V6List[k][2].ok
                /\ e.arg = <<V6List[k][1].v, V6List[k][2].v>>
          [] e.op = "enabled" -> e.arg = EnableArg /\ i = Len(log)
          [] OTHER -> FALSE

\* C1: whatever fluent calls built the builder, the operations config() has invoked
\* are in the fixed order set_mtu, set_mtu_v6, set_metric, set_tx_queue_len,
\* set_mac_address (only on an L2 device), set_network_address, add_address_v6 once
\* per ipv6 entry in insertion order, enabled(v) last with v the enable() argument
\* or true; an operation is invoked only after every earlier requested one, and a
\* build that succeeds has invoked every requested one.
C1_FixedOrder ==
    /\ \A i, j \in DOMAIN log :
          i < j => \/ Rank(log[i].op) < Rank(log[j].op)
                   \/ log[i].op = "add_address_v6" /\ log[j].op = "add_address_v6"
    /\ \A i \in DOMAIN log : CarriesBuilderValue(i)
    /\ \A i \in DOMAIN log : \A r \in 1..(Rank(log[i].op) - 1) :
          Requested(ConfigOps[r]) =>
             Count(ConfigOps[r]) =
                (IF ConfigOps[r] = "add_address_v6" THEN Len(V6List) ELSE 1)
    /\ ReturnedOk =>
          /\ Count("enabled") = 1
          /\ Count("add_address_v6") = Len(V6List)

\* a successful build on windows that invoked set_mtu, set_mtu_v6, set_metric,
\* set_network_address, two add_address_v6 and enabled
C1_Witness ==
    /\ ReturnedOk
    /\ platform = "windows"
    /\ Len(log) = 7
    /\ log[1].op = "set_mtu" /\ log[3].op = "set_metric"
    /\ log[5].op = "add_address_v6" /\ log[6].op = "add_address_v6"
    /\ log[5].arg # log[6].arg

\* the builder holds an invalid address-model value
HoldsInvalid ==
    \/ b.ipv4.some /\ (~b.ipv4.v[1].ok \/ ~b.ipv4.v[2].ok \/ ~Transpose(b.ipv4.v[3]).ok)
    \/ \E k \in DOMAIN V6List : ~V6List[k][1].ok \/ ~V6List[k][2].ok

\* C2: a builder that holds an invalid address-model value fails fast: build_sync
\* returns the validation error with no native resource created and no device
\* operation invoked.
C2_ValidationFailsFast ==
    HoldsInvalid =>
        /\ dev.driver = "none"
        /\ log = <<>>
        /\ ReturnedOk = FALSE

\* C3: with mac_addr(m) set, a successful build_sync has called set_mac_address(m)
\* exactly once if the layer is L2, and never otherwise.
C3_MacAppliedIffL2 ==
    (ReturnedOk /\ b.mac_addr.some) =>
        Count("set_mac_address") = (IF CreatedL2 THEN 1 ELSE 0)

\* the validation error config() meets first once it has invoked the logged
\* operations: the ipv4 triple's prefix, address, destination, then each ipv6
\* entry's prefix, address
FirstInvalid ==
    LET k == Count("add_address_v6") + 1
    IN  IF b.ipv4.some /\ Count("set_network_address") = 0 /\ k = 1
           /\ (~b.ipv4.v[1].ok \/ ~b.ipv4.v[2].ok \/ ~Transpose(b.ipv4.v[3]).ok)
        THEN IF ~b.ipv4.v[2].ok THEN b.ipv4.v[2]
             ELSE IF ~b.ipv4.v[1].ok THEN b.ipv4.v[1]
             ELSE Transpose(b.ipv4.v[3])
        ELSE IF k <= Len(V6List) /\ ~V6List[k][2].ok THEN V6List[k][2]
        ELSE IF k <= Len(V6List) /\ ~V6List[k][1].ok THEN V6List[k][1]
        ELSE None

\* C4: when a step of config() fails, no later step is invoked (the failed
\* operation is the last one logged, or nothing is logged after the operations
\* that preceded the invalid value), build_sync returns the error of that first
\* failing step, and nothing but the forward operations is issued on the device.
C4_FirstErrorAborts ==
    /\ \A i \in DOMAIN log :
          /\ \E r \in DOMAIN ConfigOps : ConfigOps[r] = log[i].op
          /\ i < Len(log) => log[i].ok
    /\ (log # <<>> /\ ~log[Len(log)].ok) =>
          /\ ReturnedErr
          /\ result \in {r.res : r \in DeviceOp(dev, log[Len(log)].op, log[Len(log)].arg)}
    /\ (ReturnedErr /\ dev.driver # "none" /\ (log = <<>> \/ log[Len(log)].ok)) =>
          /\ result = FirstInvalid
          /\ Count("enabled") = 0
    /\ ReturnedOk => \A i \in DOMAIN log : log[i].ok

\* config() failed at the first of two ipv6 entries: the second was not added and
\* enabled was not called
C4_Witness ==
    /\ ReturnedErr
    /\ Len(V6List) = 2
    /\ Count("add_address_v6") = 1
    /\ ~log[Len(log)].ok /\ log[Len(log)].op = "add_address_v6"
    /\ Len(log) >= 2

\* C5: a live device (its data session runs or the interface is up) has had every
\* requested configuration step applied: it became live through the final enabled
\* step of a build that succeeded.
C5_LiveOnlyWhenConfigured ==
    Live(dev) => /\ ReturnedOk
                 /\ log[Len(log)].op = "enabled" /\ log[Len(log)].arg = TRUE

(***************************************************************************)
(* Properties of the readiness adapter, checked under SpecAsync and        *)
(* FairSpecAsync.                                                          *)
(***************************************************************************)
WouldBlock == Err("WouldBlock", "EAGAIN")

\* this step is poll_recv / poll_send returning
PollReturns == task.op \in PollOps /\ task.pc # "idle" /\ task'.pc = "idle"

\* this step is the native attempt of a poll_recv / poll_send, not returning
PollRetries == task.op \in PollOps /\ task.pc = "attempt" /\ task'.pc = "check"

\* C6: poll_recv / poll_send return Pending only when the reactor reports not-ready,
\* Ready(Ok(n)) with the n of a successful native attempt, Ready(Err(e)) for a native or
\* reactor error that is never would-block; a would-block attempt under reported
\* readiness clears that readiness and repeats the check within the same call.
C6_PollRetriesOnStaleReadiness ==
    /\ [](task.op \in PollOps /\ task.ret.poll = "Ready" /\ ~task.ret.res.ok
            => task.ret.res.kind # "WouldBlock")
    /\ [][/\ PollReturns /\ task'.ret.poll = "Pending"
                => task.pc = "check" /\ ~down /\ ready \cap Mask(task.op) = {}
          /\ PollReturns /\ task'.ret.poll = "Ready" /\ task'.ret.res.ok
                => /\ task.pc = "attempt"
                   /\ task'.ret.res.v = (IF Direction(task.op) = "read" THEN Head(rxq) ELSE task.len)
                   /\ IF Direction(task.op) = "read" THEN rxq' = Tail(rxq) ELSE txFree' = txFree - 1
          /\ PollReturns /\ task'.ret.poll = "Ready" /\ ~task'.ret.res.ok
                => IF task.pc = "check" THEN down ELSE task'.ret.res = task'.native
          /\ task.op \in PollOps /\ task.pc = "attempt" /\ task'.pc # "attempt"
                /\ task'.native = WouldBlock
                => PollRetries
          /\ PollRetries
                => /\ task'.native = WouldBlock
                   /\ task.ev.current => ready' \cap task.ev.flags = {}
                   /\ rxq' = rxq /\ txFree' = txFree]_vars

\* a poll call met stale readiness, retried within the call and returned Pending
C6_Witness ==
    /\ task.op \in PollOps /\ task.pc = "idle"
    /\ task.retried /\ task.native = WouldBlock
    /\ task.ret.poll = "Pending"

\* the native operation of an awaited call can proceed and the reactor reports it
Able ==
    /\ ready \cap Mask(task.op) # {}
    /\ IF Direction(task.op) = "read" THEN rxq # <<>> ELSE txFree > 0

\* C7: an awaited recv / send / recv_vectored / send_vectored never completes with a
\* would-block error: after a would-block attempt it waits for readiness again, and once
\* the reactor reports readiness with the operation able to proceed it completes.
C7_AwaitedCallCompletes ==
    /\ [](task.op \in AsyncOps /\ task.ret.poll = "Return" /\ ~task.ret.res.ok
            => task.ret.res.kind # "WouldBlock")
    /\ [][task.op \in AsyncOps /\ task.pc = "attempt" /\ task'.pc # "attempt"
            /\ task'.native = WouldBlock
            => task'.pc = "await"]_vars
    /\ (task.op \in AsyncOps /\ task.pc # "idle" /\ Able) ~> (task.pc = "idle")

\* an awaited call met stale readiness, waited again and completed with a packet
C7_Witness ==
    /\ task.op \in AsyncOps /\ task.pc = "idle"
    /\ task.retried
    /\ task.ret.poll = "Return" /\ task.ret.res.ok

(***************************************************************************)
(* Properties of the Tun session, checked under SpecTun and FairSpecTun.   *)
(***************************************************************************)
Aborted(t) == ~thr[t].out.res.ok /\ thr[t].out.res.kind = "ConnectionAborted"

\* thread t has returned from a blocking read during which shutdown was signalled
\* while the read was blocked on an empty ring
ReturnedPending(t) == thr[t].pc = "idle" /\ thr[t].op = "recv" /\ thr[t].pending

C9_AbortedOnlyAfterShutdown ==
    \A t \in Threads :
        (thr[t].pc = "idle" /\ thr[t].op \in {"recv", "try_recv"} /\ Aborted(t)) => shut

TryCall == task.pc = "idle" /\ task' # task /\ task'.op \in TryOps

\* C11 as stated: whenever try_recv_io / try_send_io ran f, the call returned f's result
\* unchanged.
C11_TryIoResultUnchanged ==
    (task.op \in TryOps /\ task.fcalls = 1) => task.ret.res = task.native

\* C11: try_recv_io / try_send_io run f at most once and only when the reactor holds the
\* relevant readiness (readable or error for recv, writable for send); otherwise they
\* return WouldBlock with f not run and the device untouched; when f runs its result is
\* returned unchanged, except that a would-block result comes back as a plain WouldBlock
\* error after the readiness is cleared.
C11_TryIoOnlyWhenReady ==
    [][TryCall =>
          /\ task'.fcalls = (IF ready \cap Mask(task'.op) = {} THEN 0 ELSE 1)
          /\ task'.fcalls = 0 =>
                /\ task'.ret.res = Err("WouldBlock", "")
                /\ rxq' = rxq /\ txFree' = txFree /\ ready' = ready
          /\ task'.fcalls = 1 =>
                IF ~task'.native.ok /\ task'.native.kind = "WouldBlock"
                THEN /\ task'.ret.res = Err("WouldBlock", "")
                     /\ ready' \cap Mask(task'.op) = {}
                     /\ rxq' = rxq /\ txFree' = txFree
                ELSE task'.ret.res = task'.native]_vars

\* try_recv_io ran f on the error readiness alone and returned the packet f read
C11_Witness ==
    /\ task.op = "try_recv_io" /\ task.fcalls = 1 /\ task.ret.res.ok
    /\ ready = {"error"}

\* the arguments of the add_address_v6 operations config() has invoked, in order
V6Applied == SelectSeq(log, LAMBDA e : e.op = "add_address_v6")

\* C12: the builder's ipv6 list is exactly the entries the ipv6 / ipv6_tuple calls were
\* given, in call order, none replaced, dropped, reordered or deduplicated; and config()
\* invokes add_address_v6 for the entries of that list in that order, once each, a
\* successful build having invoked it for every one.
C12_Ipv6Accumulates ==
    /\ V6List = V6Entries(supplied)
    /\ b.ipv6.some \/ supplied = <<>>
    /\ Len(V6Applied) <= Len(supplied)
    /\ \A k \in DOMAIN V6Applied :
          /\ V6Entry(supplied[k])[1].ok /\ V6Entry(supplied[k])[2].ok
          /\ V6Applied[k].arg = <<V6Entry(supplied[k])[1].v, V6Entry(supplied[k])[2].v>>
    /\ ReturnedOk => Len(V6Applied) = Len(supplied)

\* the same entry was supplied twice, once by ipv6 and once more, and a successful build
\* invoked add_address_v6 for both
C12_Witness ==
    /\ ReturnedOk
    /\ Len(supplied) = 2 /\ supplied[1] = supplied[2]
    /\ Len(V6Applied) = 2 /\ V6Applied[1].arg = V6Applied[2].arg

\* this step drops a suspended recv / send / recv_vectored / send_vectored future
CancelStep == task.op \in AsyncOps /\ task.pc # "idle" /\ task'.ret.poll = "Dropped"

\* this step of an awaited call leaves the call suspended or about to attempt
StaysInCall ==
    /\ task.op \in AsyncOps /\ task.pc # "idle"
    /\ task'.pc # task.pc /\ task'.pc \in {"await", "attempt"}

\* C21: an awaited recv / send is dropped only where it waits for readiness; no step
\* that leaves the call unfinished has moved a packet (its native attempts, if any, all
\* gave would-block, which at most cleared the readiness they were made under), and the
\* drop itself leaves the queued packets, the send room, the readiness and the wakers as
\* they are, so the calls that follow find the device as if the call was never made.
C21_CancelLeavesDeviceUntouched ==
    /\ [](task.ret.poll = "Dropped" => task.native \in {None, WouldBlock})
    /\ [][/\ CancelStep =>
               /\ task.pc = "await"
               /\ rxq' = rxq /\ txFree' = txFree /\ ready' = ready /\ waker' = waker
          /\ StaysInCall =>
               /\ rxq' = rxq /\ txFree' = txFree /\ waker' = waker
               /\ task'.native \in {None, WouldBlock}
               /\ ready' # ready => task.pc = "attempt" /\ task'.native = WouldBlock]_vars

\* a recv that made a would-block attempt and waited again was dropped with a packet
\* queued, which is still there
C21_Witness ==
    /\ task.op = "recv" /\ task.ret.poll = "Dropped"
    /\ task.retried /\ task.native = WouldBlock
    /\ rxq # <<>>

RecvOps == {"recv", "recv_vectored"}

\* the reactor holds the error condition for the descriptor and not data-available
ErrorOnly == "error" \in ready /\ "readable" \notin ready

\* C22: a recv / recv_vectored waiting while the reactor holds only the error condition
\* does not stay suspended: it goes on to its native attempt (or ends), and the attempt's
\* result, unless would-block, is what the call returns; try_recv_io runs f when the
\* reactor holds the error condition.
C22_ErrorWakesReceive ==
    /\ (task.op \in RecvOps /\ task.pc = "await" /\ ErrorOnly)
          ~> (task.pc \in {"attempt", "idle"})
    /\ [][(task.op \in RecvOps /\ task.pc = "await" /\ task'.pc = "attempt" /\ ErrorOnly)
             => task'.ev.flags = {"error"}]_vars
    /\ [][(task.op \in RecvOps /\ task.pc = "attempt" /\ task'.pc = "idle")
             => task'.ret.res = task'.native /\ task'.native # WouldBlock]_vars
    /\ [][(TryCall /\ task'.op = "try_recv_io" /\ "error" \in ready)
             => task'.fcalls = 1]_vars

\* a recv woken by the error condition alone, with no packet queued, returned the error
\* of its native attempt
C22_Witness ==
    /\ task.op = "recv" /\ task.pc = "idle" /\ task.ret.poll = "Return"
    /\ ready = {"error"} /\ rxq = <<>>
    /\ task.saw = "ready" /\ task.ret.res = Err("Other", "EIO")

\* the reactor delivers a readiness report
ReportStep ==
    \/ ready' \ ready # {}
    \/ task'.pc = task.pc /\ task.ev.current /\ ~task'.ev.current

\* a poll_recv / poll_send call is running
InPoll == task.op \in PollOps /\ task.pc # "idle"

\* C27: every poll_recv / poll_send call returns once the reactor delivers no further
\* report; an iteration of its loop that does not return has cleared the readiness it
\* made its attempt under, unless the reactor delivered a report since, and the loop's
\* next look at a readiness that is not there returns Pending.
C27_PollTerminates ==
    /\ (<>[][~ReportStep]_vars) => (InPoll ~> task.pc = "idle")
    /\ [][(InPoll /\ task.pc = "attempt" /\ task'.pc = "check" /\ task.ev.current)
            => ready' \cap Mask(task.op) = {}]_vars
    /\ [][(InPoll /\ task.pc = "check" /\ task'.pc # "check" /\ ~down
                /\ ready \cap Mask(task.op) = {})
            => task'.pc = "idle" /\ task'.ret.poll = "Pending"]_vars

\* poll_send found the descriptor reported writable, its send would block, and the
\* next look at the cleared readiness returned Pending
C27_Witness ==
    /\ task.op = "poll_send" /\ task.pc = "idle"
    /\ task.retried /\ task.native = WouldBlock /\ task.saw = "not-ready"
    /\ task.ret.poll = "Pending" /\ "writable" \notin ready

\* this step is one of readable(), writable(), poll_readable(), poll_writable()
ReadinessStep == task' # task /\ task'.op \in ReadyOps \cup WaitOps

\* C20: readable(), writable(), poll_readable() and poll_writable() make no native recv
\* or send and leave the packets of the descriptor as they are; poll_readable /
\* poll_writable return within the call, Pending with the caller's waker registered when
\* the reactor reports no readiness, Ready otherwise; readable() / writable() return
\* only under reported readiness or with the runtime's error.
C20_ReadinessOnly ==
    [][/\ ReadinessStep =>
            /\ rxq' = rxq /\ txFree' = txFree /\ ready' = ready
            /\ task'.native = None /\ task'.fcalls = 0
       /\ (ReadinessStep /\ task'.op \in ReadyOps) =>
            /\ task.pc = "idle" /\ task'.pc = "idle"
            /\ IF ~down /\ ready \cap Mask(task'.op) = {}
               THEN task'.ret.poll = "Pending" /\ Direction(task'.op) \in waker'
               ELSE /\ task'.ret.poll = "Ready" /\ task'.ret.res.ok = ~down
                    /\ waker' = waker
       /\ (ReadinessStep /\ task'.op \in WaitOps /\ task'.pc = "idle") =>
            /\ task.pc = "wait"
            /\ down \/ ready \cap Mask(task'.op) # {}
            /\ task'.ret.res.ok = ~down]_vars

\* poll_readable returned Ready with the packet still queued and the readiness kept
C20_Witness ==
    /\ task.op = "poll_readable" /\ task.pc = "idle"
    /\ task.ret.poll = "Ready" /\ task.ret.res.ok
    /\ rxq # <<>> /\ "readable" \in ready

(***************************************************************************)
(* Properties of the coercion traits.                                      *)
(***************************************************************************)
\* bit i of the address a, bit 1 the most significant
BitAt(a, i) == (a[((i - 1) \div 8) + 1] \div (2 ^ (7 - ((i - 1) % 8)))) % 2

\* the address a is k one bits followed by zero bits only
OnesThenZeros(a, k) == \A i \in 1..(8 * Len(a)) : BitAt(a, i) = (IF i <= k THEN 1 ELSE 0)

\* the address width of the trait the called method belongs to
FamilyWidth ==
    IF cop \in {"prefix_v4", "netmask_v4", "netmask_v4.prefix", "ipv4"} THEN 32 ELSE 128

\* C13: for every numeric prefix length p within the family's width, netmask() returns
\* the address whose top p bits are one and whose other bits are zero (all zeros for
\* p = 0, all ones for p = the width), and prefix() of that address returns p.
C13_NetmaskRoundTrip ==
    (cin.t = "u8" /\ cin.n <= FamilyWidth) =>
        /\ cop \in {"netmask_v4", "netmask_v6"} =>
              /\ cout.ok
              /\ 8 * Len(cout.v) = FamilyWidth
              /\ OnesThenZeros(cout.v, cin.n)
        /\ cop \in {"netmask_v4.prefix", "netmask_v6.prefix"} => cout = Ok(cin.n)

\* prefix(netmask(0)) was computed for IPv4 and gave 0
C13_Witness == cop = "netmask_v4.prefix" /\ cin = U8(0) /\ cout = Ok(0)

\* C14: prefix() of an address returns Ok(k) only when the address is exactly k one bits
\* followed by zero bits, and an "invalid netmask" validation error for every other
\* address (255.0.255.0 among them), given as an address or as a string.
C14_NonContiguousMaskRejected ==
    /\ (cop \in {"prefix_v4", "prefix_v6"} /\ cin.t = "Addr") =>
          IF \E k \in 0..(8 * Len(cin.a)) : OnesThenZeros(cin.a, k)
          THEN cout.ok /\ OnesThenZeros(cin.a, cout.v)
          ELSE cout = Err("InvalidData", "invalid netmask")
    /\ (cop = "prefix_v4" /\ cin = Str("255.0.255.0")) =>
          cout = Err("InvalidData", "invalid netmask")

\* prefix() was called on the address 255.0.255.0 and returned an error
C14_Witness == cop = "prefix_v4" /\ cin = TypedAddr(V4MaskHoled) /\ ~cout.ok

\* C15: prefix() and netmask() of a numeric prefix length above the family's width
\* (32 for IPv4, 128 for IPv6) return the "invalid IP prefix length" validation error,
\* for the builder's stored entries as for a direct call; and every prefix config() has
\* handed to set_network_address is at most 32, every one handed to add_address_v6 at
\* most 128.
C15_PrefixWithinWidth ==
    /\ (/\ cop \in {"prefix_v4", "prefix_v6", "netmask_v4", "netmask_v6"}
        /\ cin.t = "u8" /\ cin.n > FamilyWidth) =>
          cout = Err("InvalidData", "invalid IP prefix length")
    /\ \A k \in DOMAIN supplied :
          (supplied[k].mask.t = "u8" /\ supplied[k].mask.n > 128) =>
              V6List[k][2] = Err("InvalidData", "invalid IP prefix length")
    /\ (b.ipv4.some /\ b.ipv4.v[2].ok) => b.ipv4.v[2].v <= 32
    /\ \A i \in DOMAIN log :
          /\ log[i].op = "set_network_address" => log[i].arg[2] <= 32
          /\ log[i].op = "add_address_v6" => log[i].arg[2] <= 128

\* netmask() refused the length 129 for IPv6, and a build stopped at an entry of prefix
\* length 129 after add_address_v6 was invoked with the prefix 128
C15_Witness ==
    /\ cop = "netmask_v6" /\ cin = U8(129) /\ ~cout.ok
    /\ ReturnedErr /\ result = Err("InvalidData", "invalid IP prefix length")
    /\ Len(V6Applied) = 1 /\ V6Applied[1].arg[2] = 128

\* C16: ipv4() / ipv6() of a generic IP address returns the same address when it is of
\* the method's family, and the "invalid address" error, never an address, when it is
\* of the other family.
C16_WrongFamilyRejected ==
    (cop \in {"ipv4", "ipv6"} /\ cin.t = "IpAddr") =>
        IF (cop = "ipv4") = (cin.fam = "V4")
        THEN cout = Ok(cin.a)
        ELSE cout = Err("InvalidData", "invalid address")

\* ipv4() was called on an IPv6 address held as a generic address and returned an error
C16_Witness == cop = "ipv4" /\ cin = GenericAddr("V6", V6HostA) /\ ~cout.ok

(***************************************************************************)
(* Properties of Device::new and of the Device.                            *)
(***************************************************************************)
\* C17: on a Tun (L3) device set_mac_address and get_mac_address return the Unsupported
\* error and ask no native handle; on a Tap (L2) device they ask the raw handle and
\* return what it returned.
C17_MacUnsupportedOnTun ==
    dlast.op \in {"set_mac_address", "get_mac_address"} =>
        IF ddev.driver = "Tun"
        THEN /\ dlast.res = Err("Unsupported", "unsupported")
             /\ ~dlast.native /\ dlast.handle = None
        ELSE /\ ddev.driver = "Tap"
             /\ dlast.native /\ dlast.handle = Some(dlast.res)

\* get_mac_address was called on a Tun device and returned Unsupported
C17_Witness ==
    /\ ddev.driver = "Tun" /\ dlast.op = "get_mac_address"
    /\ dlast.res = Err("Unsupported", "unsupported")

\* the failed calls Device::new goes on after: opening an existing adapter or tap
\* device, and the rename of a created tap device when no name was asked for
Tolerated ==
    {"Adapter::open", "TapDevice::open"}
        \cup (IF dcfg.dev_name.some THEN {} ELSE {"set_name"})

\* C18 as stated: Device::new returns Ok only if no call it made failed, save the rename
\* of a created L2 device when no name was asked for.
C18_OnlyRenameSwallowed ==
    Built => dnew.failed \subseteq (IF dcfg.dev_name.some THEN {} ELSE {"set_name"})

\* C18: Device::new goes on after a failed call in two cases only: opening an existing
\* adapter or tap device (it creates one instead), and the rename of a created L2 device
\* when no name was asked for.  A failed rename when a name was asked for, and every
\* other failing call (loading the driver, creating, starting the session, configuring,
\* reading the index, setting the metric) is the error Device::new returns, with no call
\* made after it and no Device returned.
C18_ErrorsSurface ==
    dnew # NotBuilt =>
        /\ Built => dnew.failed \subseteq Tolerated
        /\ (dnew.failed \ Tolerated # {}) =>
              /\ ~dnew.res.ok
              /\ dnew.failed \ Tolerated = {dnew.calls[Len(dnew.calls)]}
              /\ dnew.res = Err("Other", dnew.calls[Len(dnew.calls)])
              /\ ddev = NoDevice
        /\ ~dnew.res.ok => dnew.failed \ Tolerated # {}

\* a name was asked for, the rename of the created tap device failed, and Device::new
\* returned that error
C18_Witness ==
    /\ dcfg.dev_name.some /\ "set_name" \in dnew.failed
    /\ dnew.res = Err("Other", "set_name")

\* the variant the configuration asks for
WantedDriver == IF dcfg.layer = Some("L2") THEN "Tap" ELSE "Tun"

\* C19: the Device that Device::new returns holds Driver::Tun exactly when the layer is
\* L3 or unspecified and Driver::Tap exactly when it is L2, with the native resource of
\* that variant only (a session and no tap handle, or a tap handle and no session); and
\* no call on the Device changes the variant.
C19_VariantFixedByLayer ==
    /\ [](Built =>
            /\ ddev.driver = WantedDriver
            /\ (ddev.driver = "Tun") = (ddev.session # "none")
            /\ \A i \in DOMAIN dnew.calls :
                  dnew.calls[i] \notin (IF ddev.driver = "Tun" THEN NewCallsL2 ELSE NewCallsL3))
    /\ [](~Built => ddev = NoDevice)
    /\ [][Built => ddev'.driver = ddev.driver]_vars

\* a Device built with no layer given holds a Tun after its session was shut down
C19_Witness ==
    /\ dcfg.layer = None /\ ddev.driver = "Tun"
    /\ dlast.op = "shutdown" /\ dlast.res.ok /\ ddev.session = "shutdown"

Utf8Encode(cp) ==
    IF cp < 128 THEN <<cp>>
    ELSE IF cp < 2048 THEN <<192 + (cp \div 64), 128 + (cp % 64)>>
    ELSE IF cp < 65536
         THEN <<224 + (cp \div 4096), 128 + ((cp \div 64) % 64), 128 + (cp % 64)>>
    ELSE <<240 + (cp \div 262144), 128 + ((cp \div 4096) % 64), 128 + ((cp \div 64) % 64),
           128 + (cp % 64)>>

RECURSIVE Utf8Bytes(_)
\* the bytes of a text in UTF-8
Utf8Bytes(text) == IF text = <<>> THEN <<>> ELSE Utf8Encode(text[1]) \o Utf8Bytes(Tail(text))

\* the texts of at most two of the code points a, ", U+00E9, U+4E2D, U+8305, U+FFFD
Texts ==
    LET cps == {97, 34, 233, 20013, 33541, 65533}
    IN  {<<>>} \cup { <<c>> : c \in cps } \cup { <<c, d>> : c \in cps, d \in cps }

\* the stream output reports: stderr when it is not empty, else stdout
Reported(out) == IF out.stderr # <<>> THEN out.stderr ELSE out.stdout

\* C24: a zero exit status gives Ok whatever the subprocess wrote; any other gives an
\* error whose message is cmd={command},out={text}, both quoted, where the text is that
\* of stderr when stderr is not empty, else of stdout, else empty: the text whose UTF-8
\* the stream is, when there is one, and the stream's GBK decoding otherwise.
C24_ExitStatusDecides ==
    nsh.res # None =>
        /\ nsh.out.status = 0 => nsh.res = Ok(<<>>)
        /\ nsh.out.status # 0 =>
              /\ ~nsh.res.ok /\ nsh.res.kind = "Other"
              /\ \E text \in Texts :
                    /\ nsh.res.msg = <<99, 109, 100, 61>> \o Debug(nsh.cmd)
                                        \o <<44, 111, 117, 116, 61>> \o Debug(text)
                    /\ \/ Utf8Bytes(text) = Reported(nsh.out)
                       \/ /\ \A t \in Texts : Utf8Bytes(t) # Reported(nsh.out)
                          /\ text = gbk_to_utf8(Reported(nsh.out))
              /\ (nsh.out.stderr = <<>> /\ nsh.out.stdout = <<>>) =>
                    nsh.res.msg = <<99, 109, 100, 61>> \o Debug(nsh.cmd)
                                     \o <<44, 111, 117, 116, 61, 34, 34>>

\* a failed command whose stderr is U+4E2D in GBK and whose stdout is ASCII: the
\* message carries U+4E2D
C24_Witness ==
    /\ nsh.res # None /\ nsh.out.status = 1
    /\ nsh.out.stderr = <<214, 208>> /\ nsh.out.stdout = <<97>>
    /\ nsh.cmd = <<110>>
    /\ nsh.res.msg = <<99, 109, 100, 61, 34, 110, 34, 44, 111, 117, 116, 61, 34, 20013, 34>>

(***************************************************************************)
(* Properties of the order of Device::new's calls.                         *)
(***************************************************************************)
\* Device::new made the call c
Made(c) == \E i \in DOMAIN dnew.calls : dnew.calls[i] = c

\* Device::new made the call c, and it succeeded
Succeeded(c) == Made(c) /\ c \notin dnew.failed

\* the position of the call c among the calls Device::new made
Position(c) == CHOOSE i \in DOMAIN dnew.calls : dnew.calls[i] = c

\* the native resource exists: the adapter was opened or created and its session
\* started, or the tap handle was opened or created
ResourceLive ==
    IF dcfg.layer = Some("L2")
    THEN Succeeded("TapDevice::open") \/ Succeeded("TapDevice::create")
    ELSE /\ Succeeded("Adapter::open") \/ Succeeded("Adapter::create")
         /\ Succeeded("start_session")

\* C25: once Device::new has returned, it called configure only with the native
\* resource created; without the resource it failed and called neither configure nor
\* the metric command; it called the metric command only when the configuration holds
\* a metric, after a configure that succeeded, and right after asking the device that
\* exists for its index.
C25_ConfigureAfterResource ==
    dnew.res # None =>
        /\ Made("configure") => ResourceLive
        /\ ~ResourceLive =>
              ~dnew.res.ok /\ ~Made("configure") /\ ~Made("set_interface_metric")
        /\ Made("set_interface_metric") =>
              /\ dcfg.metric.some /\ ResourceLive
              /\ Succeeded("configure") /\ Succeeded("index")
              /\ Position("configure") < Position("index")
              /\ Position("set_interface_metric") = Position("index") + 1
        /\ (dnew.res.ok /\ dcfg.metric.some) => Succeeded("set_interface_metric")

\* Device::new returned a Tun device whose adapter it had to create, and ran the metric
\* command last
C25_Witness ==
    /\ dnew.res # None /\ dnew.res.ok /\ ddev.driver = "Tun"
    /\ "Adapter::open" \in dnew.failed
    /\ dnew.calls[Len(dnew.calls)] = "set_interface_metric"

(***************************************************************************)
(* Properties of the builder's MTU setters.                                *)
(***************************************************************************)
\* the set-MTU operation of an address family
SetMtuOp(fam) == IF fam = "v4" THEN "set_mtu" ELSE "set_mtu_v6"

\* the set-MTU operations config() invoked for the family
MtuApplied(fam) == SelectSeq(log, LAMBDA e : e.op = SetMtuOp(fam))

\* C26: where the platform keeps one MTU per address family, config() invokes for each
\* family at most one set-MTU operation, its argument the argument of the last of the
\* mtu / mtu_v4 / mtu_v6 calls made for that family (mtu is for both, mtu_v4 for IPv4,
\* mtu_v6 for IPv6); it invokes none for a family no call was made for, and a successful
\* build has invoked one for every family a call was made for.
C26_MtuLastCallWins ==
    platform = "windows" =>
        \A fam \in DOMAIN mtuArg :
            /\ Len(MtuApplied(fam)) <= 1
            /\ \A k \in DOMAIN MtuApplied(fam) : mtuArg[fam] = Some(MtuApplied(fam)[k].arg)
            /\ ~mtuArg[fam].some => MtuApplied(fam) = <<>>
            /\ (ReturnedOk /\ mtuArg[fam].some) => Len(MtuApplied(fam)) = 1

\* a successful build whose last MTU call for IPv4 had 1400 and for IPv6 had 1500 (as
\* after mtu(1400) then mtu_v6(1500)) applied 1400 to IPv4 and 1500 to IPv6
C26_Witness ==
    /\ platform = "windows" /\ ReturnedOk
    /\ mtuArg["v4"] = Some(1400) /\ mtuArg["v6"] = Some(1500)
    /\ Len(MtuApplied("v4")) = 1 /\ MtuApplied("v4")[1].arg = 1400
    /\ Len(MtuApplied("v6")) = 1 /\ MtuApplied("v6")[1].arg = 1500

(***************************************************************************)
(* Properties of the packet buffers of the Tun session, under SpecTun.     *)
(***************************************************************************)
\* C28: no send / try_send returns with a packet it allocated not handed to send_packet,
\* whatever the length of the caller's buffer, and no slot of the send ring is held by
\* a packet that was allocated and dropped unsent.
C28_BuffersBalanced ==
    /\ txStuck = 0
    /\ \A t \in Threads :
          (thr[t].pc = "idle" /\ thr[t].op \in {"send", "try_send"}
              /\ thr[t].cause.t = "Allocated")
            => thr[t].out.sent /\ ~thr[t].out.unsent

\* the thread's last call was a recv / try_recv, and it has returned
ReadReturned(th) == th.pc = "idle" /\ th.op \in {"recv", "try_recv"}

\* C29: a recv / try_recv that returns Ok(n) got a packet of n bytes, n at most the
\* buffer's length, and left the packet's bytes in the buffer's first n bytes; when the
\* packet it got is longer than the buffer it returns an error; and in both cases the
\* packet it got was the oldest of the ring and is no longer in the ring, so that the
\* next read gets the packet after it.
C29_WholePacketOrError ==
    /\ [](\A t \in Threads :
            ReadReturned(thr[t]) =>
                /\ thr[t].out.res.ok =>
                      /\ thr[t].cause.t = "Packet"
                      /\ thr[t].out.res.v = Len(thr[t].cause.bytes)
                      /\ thr[t].out.res.v <= thr[t].arg
                      /\ thr[t].out.buf = thr[t].cause.bytes
                /\ (thr[t].cause.t = "Packet" /\ Len(thr[t].cause.bytes) > thr[t].arg)
                      => ~thr[t].out.res.ok)
    /\ [][\A t \in Threads :
            (thr'[t] # thr[t] /\ ReadReturned(thr'[t]) /\ thr'[t].cause.t = "Packet")
                => /\ ring # <<>> /\ thr'[t].cause.bytes = Head(ring)
                   /\ ring' = Tail(ring)]_vars
    /\ [][Len(ring') < Len(ring) => ring' = Tail(ring)]_vars

\* one read got a packet longer than its buffer and failed, and another read got the
\* next packet whole
C29_Witness ==
    \E t, u \in Threads :
        /\ ReadReturned(thr[t]) /\ thr[t].cause.t = "Packet"
        /\ Len(thr[t].cause.bytes) > thr[t].arg /\ ~thr[t].out.res.ok
        /\ ReadReturned(thr[u]) /\ thr[u].out.res = Ok(1) /\ thr[u].out.buf = <<7>>

====
